---- MODULE Spec2Model ----
(***************************************************************************)
(* A model of the uniplate crate: the one-level shape tree (Tree), the     *)
(* derived Uniplate/Biplate instances of the paper's Stmt/Expr types, the  *)
(* generic traversal operations built on them, and the hole and context    *)
(* iterators.                                                              *)
(*                                                                         *)
(* Values are tagged tuples: <<tag, field1, ...>>.  A boxed closure is     *)
(* modelled by the data it captures; calling it is an operator applied to  *)
(* that data.  A Rust panic is the value PANIC, which every caller passes  *)
(* on.                                                                     *)
(***************************************************************************)
EXTENDS Integers, Sequences, FiniteSets, TLC

\* ---------------------------------------------------------------------
\* Bounds
\* ---------------------------------------------------------------------

\* Largest number of Stmt constructors in an input statement.
MaxSize == 4

\* Largest number of Zero/One/Many nodes in an input Tree.
MaxTreeSize == 5

\* Longest child list handed to with_children / with_children_bi / rebuild.
MaxChildren == 2
MaxSiblings == 3
MaxTagWrites == 2
MaxInvalidations == 1

\* ---------------------------------------------------------------------
\* Values
\* ---------------------------------------------------------------------

\* Eval(v, F) is F(v) with v evaluated once, as Rust evaluates an argument
\* before the call.
Eval(v, F(_)) == CHOOSE r \in {F(x) : x \in {v}} : TRUE

PANIC == <<"PANIC">>
None == <<"None">>
Some(x) == <<"Some", x>>

Str(s) == <<"String", s>>
I32(i) == <<"i32", i>>
VecOf(xs) == <<"Vec", xs>>

Add(a, b) == <<"Add", a, b>>
Div(a, b) == <<"Div", a, b>>
Val(i) == <<"Val", I32(i)>>
Var(s) == <<"Var", Str(s)>>
Neg(a) == <<"Neg", a>>

Assign(s, e) == <<"Assign", Str(s), e>>
Sequence(ss) == <<"Sequence", VecOf(ss)>>
If(c, a, b) == <<"If", c, a, b>>
While(c, a) == <<"While", c, a>>

\* ---------------------------------------------------------------------
\* Tree
\* ---------------------------------------------------------------------

Zero == <<"Zero">>
One(x) == <<"One", x>>
Many(ts) == <<"Many", ts>>

RECURSIVE is_empty(_)
is_empty(t) ==
    CASE t[1] = "Zero" -> TRUE
      [] t[1] = "One" -> FALSE
      [] OTHER -> \A i \in 1..Len(t[2]) : is_empty(t[2][i])

\* flatten with push_front in place of push_back.
RECURSIVE flatten_push_front(_, _)
flatten_push_front(t, xs) ==
    CASE t[1] = "Zero" -> xs
      [] t[1] = "One" -> <<t[2]>> \o xs
      [] OTHER -> IF t[2] = <<>>
                  THEN xs
                  ELSE flatten_push_front(Many(Tail(t[2])),
                                          flatten_push_front(Head(t[2]), xs))

RECURSIVE flatten(_, _)
flatten(t, xs) ==
    CASE t[1] = "Zero" -> xs
      [] t[1] = "One" -> Append(xs, t[2])
      [] OTHER -> IF t[2] = <<>>
                  THEN xs
                  ELSE flatten(Many(Tail(t[2])), flatten(Head(t[2]), xs))

\* recons with every subtree of a Many reading from the start of xs.
RECURSIVE recons_same_list(_, _)
recons_same_list(old_tree, xs) ==
    CASE old_tree[1] = "Zero" -> <<Zero, xs>>
      [] old_tree[1] = "One" ->
            IF xs = <<>> THEN PANIC ELSE <<One(Head(xs)), Tail(xs)>>
      [] OTHER ->
            IF old_tree[2] = <<>>
            THEN <<Many(<<>>), xs>>
            ELSE Eval(recons_same_list(Head(old_tree[2]), xs), LAMBDA r1 :
                 IF r1 = PANIC THEN PANIC
                 ELSE Eval(recons_same_list(Many(Tail(old_tree[2])), xs), LAMBDA r2 :
                      IF r2 = PANIC THEN PANIC
                      ELSE <<Many(<<r1[1]>> \o r2[1][2]), r2[2]>>))

\* recons returns <<new tree, unused rest of xs>>; the unwrap of pop_front
\* panics on an exhausted list.
RECURSIVE recons(_, _)
recons(old_tree, xs) ==
    CASE old_tree[1] = "Zero" -> <<Zero, xs>>
      [] old_tree[1] = "One" ->
            IF xs = <<>> THEN PANIC ELSE <<One(Head(xs)), Tail(xs)>>
      [] OTHER ->
            IF old_tree[2] = <<>>
            THEN <<Many(<<>>), xs>>
            ELSE Eval(recons(Head(old_tree[2]), xs), LAMBDA r1 :
                 IF r1 = PANIC THEN PANIC
                 ELSE Eval(recons(Many(Tail(old_tree[2])), r1[2]), LAMBDA r2 :
                      IF r2 = PANIC THEN PANIC
                      ELSE <<Many(<<r1[1]>> \o r2[1][2]), r2[2]>>))

\* Tree::list: the flattened leaves and the rebuilder.  The rebuilder is the
\* closure `move |xs| recons(self.clone(), xs).0`; it is represented by the
\* tree it captures and called through rebuild.
list(t) == <<flatten(t, <<>>), t>>

rebuild(captured, xs) ==
    Eval(recons(captured, xs), LAMBDA r : IF r = PANIC THEN PANIC ELSE r[1])

\* ---------------------------------------------------------------------
\* The types of test_common/paper.rs and their declared instances
\* ---------------------------------------------------------------------

Basic(ty) == [kind |-> "Basic", ty |-> ty]
BoxedBasic(ty) == [kind |-> "BoxedBasic", ty |-> ty]

\* The field list of each enum variant, by variant tag.
Fields(tag) ==
    CASE tag = "Assign" -> <<Basic("String"), Basic("Expr")>>
      [] tag = "Sequence" -> <<Basic("Vec<Stmt>")>>
      [] tag = "If" -> <<Basic("Expr"), BoxedBasic("Stmt"), BoxedBasic("Stmt")>>
      [] tag = "While" -> <<Basic("Expr"), BoxedBasic("Stmt")>>
      [] tag \in {"Add", "Sub", "Mul", "Div"} ->
            <<BoxedBasic("Expr"), BoxedBasic("Expr")>>
      [] tag = "Val" -> <<Basic("i32")>>
      [] tag = "Var" -> <<Basic("String")>>
      [] tag = "Neg" -> <<BoxedBasic("Expr")>>

DerivedTypes == {"Stmt", "Expr"}
UnplateableTypes == {"String", "i32"}
IterTypes == {"Vec<Stmt>"}
ElemTy(ty) == "Stmt"

\* The #[biplate(to=..)] attributes of each derived type: those of
\* test_common/paper.rs, the to=i32 of tests/derive-pass/enums/biplate-stmt.rs
\* and the to=Vec<Stmt> of tests/derive-pass/enums/issue-16-biplate-to-vec-expr.rs.
DeclaredBiplates ==
    {<<"Stmt", "Expr">>, <<"Stmt", "String">>,
     <<"Expr", "String">>, <<"Expr", "Stmt">>,
     <<"Stmt", "i32">>, <<"Expr", "i32">>,
     <<"Stmt", "Vec<Stmt>">>, <<"Expr", "Vec<Stmt>">>}

\* ParserState::new always adds Biplate<From> for From.
GeneratedBiplates ==
    DeclaredBiplates \cup {<<ty, ty>> : ty \in DerivedTypes}

\* Which `impl Biplate<To> for F` exist: the resolution that the
\* auto-deref specialisation of try_biplate_to! makes at compile time.
RECURSIVE ImplsBiplate(_, _)
ImplsBiplate(F, To) ==
    CASE F \in DerivedTypes -> <<F, To>> \in GeneratedBiplates
      [] F \in UnplateableTypes -> F = To
      [] F \in IterTypes -> ImplsBiplate(ElemTy(F), To)
      [] OTHER -> FALSE

\* ---------------------------------------------------------------------
\* biplate / uniplate: the shape tree of a value, and its reconstructor
\* (the closure `ctx`, represented by the value x it captures)
\* ---------------------------------------------------------------------

RECURSIVE biplate(_, _, _)
RECURSIVE biplate_ctx(_, _, _, _)

\* impl BiplateYes / BiplateNo :: spez_try_biplate, the tree
try_biplate_to(F, To, x) ==
    IF ImplsBiplate(F, To)
    THEN biplate(F, To, x)
    ELSE IF F = To THEN One(x) ELSE Zero

\* impl BiplateYes / BiplateNo :: spez_try_biplate, the closure
try_biplate_to_ctx(F, To, x, tr) ==
    IF ImplsBiplate(F, To)
    THEN biplate_ctx(F, To, x, tr)
    ELSE IF F = To
         THEN (IF tr[1] = "One" THEN tr[2] ELSE PANIC)
         ELSE x

\* derive_unplateable!: Biplate<$t> for $t
unplateable_biplate(x) == One(x)
unplateable_biplate_ctx(x, tr) == x

\* _derive_identity_biplate
identity_biplate(x) == One(x)
\* The identity reconstructor returning the captured value.
identity_biplate_ctx_clone(x, tr) == x

identity_biplate_ctx(x, tr) == IF tr[1] = "One" THEN tr[2] ELSE PANIC

\* derive_iter!: Biplate<T> for Vec<F>, the tree
iter_biplate(F, To, v) ==
    IF v[2] = <<>> THEN Zero
    ELSE IF To = F
         THEN Many([i \in 1..Len(v[2]) |-> One(v[2][i])])
         ELSE Many([i \in 1..Len(v[2]) |-> biplate(F, To, v[2][i])])

Min(a, b) == IF a < b THEN a ELSE b

\* derive_iter!: Biplate<T> for Vec<F>, the closure
iter_biplate_ctx(F, To, v, tr) ==
    IF v[2] = <<>> THEN v
    ELSE IF tr[1] # "Many" THEN PANIC
    ELSE IF To = F
         THEN IF \E i \in 1..Len(tr[2]) : tr[2][i][1] # "One"
              THEN PANIC
              ELSE VecOf([i \in 1..Len(tr[2]) |-> tr[2][i][2]])
         ELSE LET n == Min(Len(tr[2]), Len(v[2])) IN
              Eval([i \in 1..n |-> biplate_ctx(F, To, v[2][i], tr[2][i])],
                   LAMBDA out :
                       IF \E i \in 1..n : out[i] = PANIC
                       THEN PANIC
                       ELSE VecOf(out))

\* _derive_a_enum_uniplate with _derive_for_field_enum and _derive_children:
\* one try_biplate_to! per field (a Box is dereferenced first), gathered
\* into Many; Zero for a variant without fields.
derived_children(To, x) ==
    LET fs == Fields(x[1]) IN
    IF Len(fs) = 0 THEN Zero
    ELSE Many([i \in 1..Len(fs) |-> try_biplate_to(fs[i].ty, To, x[i + 1])])

\* _derive_ctx with every field rebuilt from x[0].
derived_ctx_first_index(To, x, tr) ==
    LET fs == Fields(x[1]) IN
    IF Len(fs) = 0
    THEN (IF tr = Zero THEN x ELSE PANIC)
    ELSE IF tr[1] # "Many" THEN PANIC
    ELSE IF Len(tr[2]) < Len(fs) THEN PANIC
    ELSE Eval([i \in 1..Len(fs) |->
                  try_biplate_to_ctx(fs[i].ty, To, x[i + 1], tr[2][1])],
              LAMBDA parts :
                  IF \E i \in 1..Len(fs) : parts[i] = PANIC
                  THEN PANIC
                  ELSE <<x[1]>> \o parts)

\* _derive_ctx: rebuild the same variant, field i from x[i]; indexing past
\* the end of the VecDeque panics, a surplus is not looked at.
derived_ctx(To, x, tr) ==
    LET fs == Fields(x[1]) IN
    IF Len(fs) = 0
    THEN (IF tr = Zero THEN x ELSE PANIC)
    ELSE IF tr[1] # "Many" THEN PANIC
    ELSE IF Len(tr[2]) < Len(fs) THEN PANIC
    ELSE Eval([i \in 1..Len(fs) |->
                  try_biplate_to_ctx(fs[i].ty, To, x[i + 1], tr[2][i])],
              LAMBDA parts :
                  IF \E i \in 1..Len(fs) : parts[i] = PANIC
                  THEN PANIC
                  ELSE <<x[1]>> \o parts)

biplate(F, To, x) ==
    CASE F \in UnplateableTypes -> unplateable_biplate(x)
      [] F \in IterTypes -> iter_biplate(ElemTy(F), To, x)
      [] F = To -> identity_biplate(x)
      [] OTHER -> derived_children(To, x)

biplate_ctx(F, To, x, tr) ==
    Eval(tr, LAMBDA t :
        CASE t = PANIC -> PANIC
          [] F \in UnplateableTypes -> unplateable_biplate_ctx(x, t)
          [] F \in IterTypes -> iter_biplate_ctx(ElemTy(F), To, x, t)
          [] F = To -> identity_biplate_ctx(x, t)
          [] OTHER -> derived_ctx(To, x, t))

\* Uniplate::uniplate: derive_a_uniplate for the derived types (the target
\* is the type itself), Zero for the unplateable and the iterable types.
uniplate(T, x) ==
    IF T \in DerivedTypes THEN derived_children(T, x) ELSE Zero

uniplate_ctx(T, x, tr) ==
    Eval(tr, LAMBDA t :
        CASE t = PANIC -> PANIC
          [] T \in DerivedTypes -> derived_ctx(T, x, t)
          [] OTHER -> x)

\* ---------------------------------------------------------------------
\* Callbacks.  A callback is data: <<"fn", name>> is a caller's function,
\* <<"transform", T, f>> the closure |child| child.transform(f) and
\* <<"rewrite", T, r>> the closure |child| child.rewrite(r).
\* ---------------------------------------------------------------------

\* The rewrite rules a caller may pass (Self -> Option<Self>).
RuleNames == {"never", "unwhile", "if2while", "unseq", "lower"}

\* "lower" turns an If into a While and a While into its body, so its
\* result can itself be rewritten; every rule makes the statement smaller.
Rule(name, x0) ==
    Eval(x0, LAMBDA x :
        CASE name = "unwhile" /\ x[1] = "While" -> Some(x[3])
          [] name = "if2while" /\ x[1] = "If" -> Some(While(x[2], x[3]))
          [] name = "unseq" /\ x[1] = "Sequence" /\ Len(x[2][2]) = 1 ->
                Some(x[2][2][1])
          [] name = "lower" /\ x[1] = "If" -> Some(While(x[2], x[3]))
          [] name = "lower" /\ x[1] = "While" -> Some(x[3])
          [] OTHER -> None)

\* The functions a caller may pass (Self -> Self): the identity and the
\* total versions of the rules.
FnNames == {"id", "unwhile", "if2while", "unseq"}

Fn(name, x) ==
    IF name = "id" THEN x
    ELSE LET r == Rule(name, x) IN IF r = None THEN x ELSE r[2]

RECURSIVE call(_, _)

\* Tree::map
RECURSIVE map(_, _)
map(t, op) ==
    CASE t[1] = "Zero" -> Zero
      [] t[1] = "One" -> One(call(op, t[2]))
      [] OTHER -> Many([i \in 1..Len(t[2]) |-> map(t[2][i], op)])

\* ---------------------------------------------------------------------
\* trait Uniplate
\* ---------------------------------------------------------------------

children(T, n) == list(uniplate(T, n))[1]

\* with_children with the length check `>` in place of `!=`.
with_children_checks_shortage_only(T, n, cs) ==
    LET old_children == uniplate(T, n)
        l == list(old_children)
    IN IF Len(l[1]) > Len(cs)
       THEN PANIC
       ELSE uniplate_ctx(T, n, rebuild(l[2], cs))

with_children(T, n, cs) ==
    Eval(uniplate(T, n), LAMBDA old_children :
        Eval(list(old_children), LAMBDA l :
            IF Len(l[1]) # Len(cs)
            THEN PANIC
            ELSE uniplate_ctx(T, n, rebuild(l[2], cs))))

descend(T, n, op) == uniplate_ctx(T, n, map(uniplate(T, n), op))

RECURSIVE Concat(_)
Concat(ss) == IF ss = <<>> THEN <<>> ELSE Head(ss) \o Concat(Tail(ss))

\* universe with the node pushed after its children's universes.
RECURSIVE universe_node_last(_, _)
universe_node_last(T, n) ==
    LET cs == children(T, n) IN
    Concat([i \in 1..Len(cs) |-> universe_node_last(T, cs[i])]) \o <<n>>

RECURSIVE universe(_, _)
universe(T, n) ==
    LET cs == children(T, n) IN
    <<n>> \o Concat([i \in 1..Len(cs) |-> universe(T, cs[i])])

RECURSIVE transform(_, _, _)
transform(T, n, f) ==
    call(f, uniplate_ctx(T, n, map(uniplate(T, n), <<"transform", T, f>>)))

RECURSIVE rewrite(_, _, _)
rewrite(T, n, r) ==
    Eval(map(uniplate(T, n), <<"rewrite", T, r>>), LAMBDA new_children :
        Eval(Rule(r, uniplate_ctx(T, n, new_children)), LAMBDA res :
            IF res = None THEN uniplate_ctx(T, n, new_children) ELSE res[2]))

call(op, x) ==
    Eval(x, LAMBDA v :
        CASE op[1] = "fn" -> Fn(op[2], v)
          [] op[1] = "transform" -> transform(op[2], v, op[3])
          [] op[1] = "rewrite" -> rewrite(op[2], v, op[3]))

\* ---------------------------------------------------------------------
\* trait Biplate<To>
\* ---------------------------------------------------------------------

children_bi(F, To, n) == list(biplate(F, To, n))[1]

with_children_bi(F, To, n, cs) ==
    Eval(biplate(F, To, n), LAMBDA old_children :
        Eval(list(old_children), LAMBDA l :
            IF Len(l[1]) # Len(cs)
            THEN PANIC
            ELSE biplate_ctx(F, To, n, rebuild(l[2], cs))))

descend_bi(F, To, n, op) == biplate_ctx(F, To, n, map(biplate(F, To, n), op))

universe_bi(F, To, n) ==
    LET cs == children_bi(F, To, n) IN
    Concat([i \in 1..Len(cs) |-> universe(To, cs[i])])

transform_bi(F, To, n, f) == descend_bi(F, To, n, <<"transform", To, f>>)

\* ---------------------------------------------------------------------
\* traits/context.rs: Zipper<T>.  A zipper is [focus, path]; a path segment
\* is [left, right, rebuild_tree, ctx] with rebuild_tree the tree captured
\* by the rebuilder of Tree::list and ctx the parent captured by the
\* reconstructor of uniplate.  A move returns <<moved, zipper>>.
\* ---------------------------------------------------------------------

Zipper_new(top) == [focus |-> top, path |-> <<>>]

Front(xs) == SubSeq(xs, 1, Len(xs) - 1)
Last(xs) == xs[Len(xs)]

\* go_up with the focus put after the right siblings.
go_up_focus_last(T, z) ==
    IF z.path = <<>> THEN <<FALSE, z>>
    ELSE LET path_seg == Last(z.path)
             left == path_seg.left \o path_seg.right \o <<z.focus>>
             tree == rebuild(path_seg.rebuild_tree, left)
         IN <<TRUE, [focus |-> uniplate_ctx(T, path_seg.ctx, tree),
                     path |-> Front(z.path)]>>

go_up(T, z) ==
    IF z.path = <<>> THEN <<FALSE, z>>
    ELSE LET path_seg == Last(z.path)
             left == path_seg.left \o <<z.focus>> \o path_seg.right
             tree == rebuild(path_seg.rebuild_tree, left)
         IN <<TRUE, [focus |-> uniplate_ctx(T, path_seg.ctx, tree),
                     path |-> Front(z.path)]>>

\* go_down with pop_back in place of pop_front.
go_down_pop_back(T, z) ==
    LET l == list(uniplate(T, z.focus))
        siblings == l[1]
    IN IF siblings = <<>> THEN <<FALSE, z>>
       ELSE <<TRUE, [focus |-> Last(siblings),
                     path |-> Append(z.path,
                                 [left |-> <<>>, right |-> Front(siblings),
                                  rebuild_tree |-> l[2], ctx |-> z.focus])]>>

go_down(T, z) ==
    LET l == list(uniplate(T, z.focus))
        siblings == l[1]
    IN IF siblings = <<>> THEN <<FALSE, z>>
       ELSE <<TRUE, [focus |-> Head(siblings),
                     path |-> Append(z.path,
                                 [left |-> <<>>, right |-> Tail(siblings),
                                  rebuild_tree |-> l[2], ctx |-> z.focus])]>>

go_right(z) ==
    IF z.path = <<>> THEN <<FALSE, z>>
    ELSE LET path_segment == Last(z.path) IN
         IF path_segment.right = <<>> THEN <<FALSE, z>>
         ELSE <<TRUE, [focus |-> Head(path_segment.right),
                       path |-> Append(Front(z.path),
                                   [path_segment EXCEPT
                                       !.right = Tail(@),
                                       !.left = Append(@, z.focus)])]>>

RECURSIVE go_to_top(_, _)
go_to_top(T, z) ==
    Eval(go_up(T, z), LAMBDA r : IF r[1] THEN go_to_top(T, r[2]) ELSE z.focus)

\* ---------------------------------------------------------------------
\* traits/context.rs: ZipperBi<T, U>.  The bottom segment is a Top, whose
\* ctx is the reconstructor of U's biplate to T.
\* ---------------------------------------------------------------------

\* ZipperBi::new: None if the biplate returns no children.
ZipperBi_new(U, T, top) ==
    LET l == list(biplate(U, T, top))
        siblings == l[1]
    IN IF siblings = <<>> THEN None
       ELSE Some([focus |-> Head(siblings),
                  path |-> <<[seg |-> "Top", left |-> <<>>,
                              right |-> Tail(siblings),
                              rebuild_tree |-> l[2], ctx |-> top]>>])

ZipperBi_go_up(T, z) ==
    IF z.path = <<>> \/ Last(z.path).seg # "Node" THEN <<FALSE, z>>
    ELSE LET path_seg == Last(z.path)
             left == path_seg.left \o <<z.focus>> \o path_seg.right
             tree == rebuild(path_seg.rebuild_tree, left)
         IN <<TRUE, [focus |-> uniplate_ctx(T, path_seg.ctx, tree),
                     path |-> Front(z.path)]>>

ZipperBi_go_down(T, z) ==
    LET l == list(uniplate(T, z.focus))
        siblings == l[1]
    IN IF siblings = <<>> THEN <<FALSE, z>>
       ELSE <<TRUE, [focus |-> Head(siblings),
                     path |-> Append(z.path,
                                 [seg |-> "Node", left |-> <<>>,
                                  right |-> Tail(siblings),
                                  rebuild_tree |-> l[2], ctx |-> z.focus])]>>

ZipperBi_go_right(z) ==
    IF z.path = <<>> THEN <<FALSE, z>>
    ELSE LET path_segment == Last(z.path) IN
         IF path_segment.right = <<>> THEN <<FALSE, z>>
         ELSE <<TRUE, [focus |-> Head(path_segment.right),
                       path |-> Append(Front(z.path),
                                   [path_segment EXCEPT
                                       !.right = Tail(@),
                                       !.left = Append(@, z.focus)])]>>

\* ---------------------------------------------------------------------
\* traits/context.rs: ContextIter and ContextIterBi
\* ---------------------------------------------------------------------

ContextIter_new(root) ==
    [kind |-> "contexts", zipper |-> Zipper_new(root), done |-> FALSE]

\* The loop of ContextIter::next after a failed go_down: right if possible,
\* else up and again; done when go_up fails.  Returns <<zipper, done>>.
RECURSIVE ContextIter_climb(_, _)
ContextIter_climb(T, z) ==
    Eval(go_right(z), LAMBDA r :
        IF r[1] THEN <<r[2], FALSE>>
        ELSE Eval(go_up(T, z), LAMBDA u :
                IF u[1] THEN ContextIter_climb(T, u[2]) ELSE <<z, TRUE>>))

\* Prepare the iterator for the next element.
ContextIter_advance(T, z) ==
    Eval(go_down(T, z), LAMBDA d :
        IF d[1] THEN <<d[2], FALSE>> ELSE ContextIter_climb(T, z))

\* The closure hole_fn of ContextIter::next, capturing zipper1.
ContextIter_hole_fn(T, zipper1, x) ==
    go_to_top(T, [zipper1 EXCEPT !.focus = x])

ContextIterBi_new(U, T, root) ==
    [kind |-> "contexts_bi", to |-> T, zipper |-> ZipperBi_new(U, T, root),
     done |-> FALSE]

RECURSIVE ContextIterBi_climb(_, _)
ContextIterBi_climb(T, z) ==
    Eval(ZipperBi_go_right(z), LAMBDA r :
        IF r[1] THEN <<r[2], FALSE>>
        ELSE Eval(ZipperBi_go_up(T, z), LAMBDA u :
                IF u[1] THEN ContextIterBi_climb(T, u[2]) ELSE <<z, TRUE>>))

ContextIterBi_advance(T, z) ==
    Eval(ZipperBi_go_down(T, z), LAMBDA d :
        IF d[1] THEN <<d[2], FALSE>> ELSE ContextIterBi_climb(T, z))

\* ---------------------------------------------------------------------
\* traits/holes.rs: HolesIter and HolesIterBi.  children_iter is the
\* position in the enumeration of the children (0-based, as enumerate()).
\* ---------------------------------------------------------------------

HolesIter_new(T, parent) ==
    [kind |-> "holes", children_iter |-> 0,
     children |-> children(T, parent), parent |-> parent]

\* The closure `hole` with children[0] = x in place of children[i] = x.
HolesIter_hole_first(T, parent2, children2, i, x) ==
    with_children(T, parent2, [children2 EXCEPT ![1] = x])

\* The closure `hole` of HolesIter::next, capturing children2, parent2, i.
HolesIter_hole(T, parent2, children2, i, x) ==
    with_children(T, parent2, [children2 EXCEPT ![i + 1] = x])

HolesIterBi_new(F, T, parent) ==
    [kind |-> "holes_bi", to |-> T, children_iter |-> 0,
     children |-> children_bi(F, T, parent), parent |-> parent]

\* The closure `hole` of HolesIterBi::next.
HolesIterBi_hole(F, T, parent2, children2, i, x) ==
    with_children_bi(F, T, parent2, [children2 EXCEPT ![i + 1] = x])

\* ---------------------------------------------------------------------
\* zipper.rs: the public Zipper<T>.  Same representation as the Zipper of
\* traits/context.rs: [focus, path], a move returns <<moved, zipper>>.
\* ---------------------------------------------------------------------

PubZipper_new(root) == [focus |-> root, path |-> <<>>]

\* replace_focus that empties the left siblings of the last level
PubZipper_replace_focus_drops_left(z, new_focus) ==
    <<z.focus,
      [focus |-> new_focus,
       path |-> [d \in 1..Len(z.path) |->
                    IF d = Len(z.path) THEN [z.path[d] EXCEPT !.left = <<>>]
                    ELSE z.path[d]]]>>

\* replace_focus returns <<old focus, zipper>>.
PubZipper_replace_focus(z, new_focus) ==
    <<z.focus, [z EXCEPT !.focus = new_focus]>>

PubZipper_go_up(T, z) ==
    IF z.path = <<>> THEN <<FALSE, z>>
    ELSE LET path_seg == Last(z.path)
             left == path_seg.left \o <<z.focus>> \o path_seg.right
             tree == rebuild(path_seg.rebuild_tree, left)
         IN <<TRUE, [focus |-> uniplate_ctx(T, path_seg.ctx, tree),
                     path |-> Front(z.path)]>>

RECURSIVE PubZipper_rebuild_root(_, _)
PubZipper_rebuild_root(T, z) ==
    Eval(PubZipper_go_up(T, z), LAMBDA r :
        IF r[1] THEN PubZipper_rebuild_root(T, r[2]) ELSE z.focus)

PubZipper_go_down(T, z) ==
    LET l == list(uniplate(T, z.focus))
        siblings == l[1]
    IN IF siblings = <<>> THEN <<FALSE, z>>
       ELSE <<TRUE, [focus |-> Head(siblings),
                     path |-> Append(z.path,
                                 [left |-> <<>>, right |-> Tail(siblings),
                                  rebuild_tree |-> l[2], ctx |-> z.focus])]>>

\* left.pop_front() is the new focus, right.push_back(old focus).
PubZipper_go_left(z) ==
    IF z.path = <<>> THEN <<FALSE, z>>
    ELSE LET path_segment == Last(z.path) IN
         IF path_segment.left = <<>> THEN <<FALSE, z>>
         ELSE <<TRUE, [focus |-> Head(path_segment.left),
                       path |-> Append(Front(z.path),
                                   [path_segment EXCEPT
                                       !.left = Tail(@),
                                       !.right = Append(@, z.focus)])]>>

\* right.pop_front() is the new focus, left.push_back(old focus).
PubZipper_go_right(z) ==
    IF z.path = <<>> THEN <<FALSE, z>>
    ELSE LET path_segment == Last(z.path) IN
         IF path_segment.right = <<>> THEN <<FALSE, z>>
         ELSE <<TRUE, [focus |-> Head(path_segment.right),
                       path |-> Append(Front(z.path),
                                   [path_segment EXCEPT
                                       !.right = Tail(@),
                                       !.left = Append(@, z.focus)])]>>

\* siblings_index: the number of left siblings of the focus, None at the
\* root.
PubZipper_siblings_index(z) ==
    IF z.path = <<>> THEN None ELSE Some(Len(Last(z.path).left))

\* ---------------------------------------------------------------------
\* zipper.rs: the public ZipperBi<To, From>; the bottom segment is a Top
\* ---------------------------------------------------------------------

\* ZipperBi::new: None if the root has no children of type To.
PubZipperBi_new(From, To, top) ==
    LET l == list(biplate(From, To, top))
        siblings == l[1]
    IN IF siblings = <<>> THEN None
       ELSE Some([focus |-> Head(siblings),
                  path |-> <<[seg |-> "Top", left |-> <<>>,
                              right |-> Tail(siblings),
                              rebuild_tree |-> l[2], ctx |-> top]>>])

\* go_up that pops the last segment before it looks at it
PubZipperBi_go_up_commits_to_pop(To, z) ==
    IF z.path = <<>> THEN <<FALSE, z>>
    ELSE IF Last(z.path).seg # "Node"
    THEN <<FALSE, [z EXCEPT !.path = Front(@)]>>
    ELSE LET path_seg == Last(z.path)
             left == path_seg.left \o <<z.focus>> \o path_seg.right
             tree == rebuild(path_seg.rebuild_tree, left)
         IN <<TRUE, [focus |-> uniplate_ctx(To, path_seg.ctx, tree),
                     path |-> Front(z.path)]>>

PubZipperBi_go_up(To, z) ==
    IF z.path = <<>> \/ Last(z.path).seg # "Node" THEN <<FALSE, z>>
    ELSE LET path_seg == Last(z.path)
             left == path_seg.left \o <<z.focus>> \o path_seg.right
             tree == rebuild(path_seg.rebuild_tree, left)
         IN <<TRUE, [focus |-> uniplate_ctx(To, path_seg.ctx, tree),
                     path |-> Front(z.path)]>>

\* rebuild_root: up to the Top segment, then rebuild the From value; a path
\* that does not end in a Top is the unreachable!() panic.
RECURSIVE PubZipperBi_rebuild_root(_, _, _)
PubZipperBi_rebuild_root(From, To, z) ==
    Eval(PubZipperBi_go_up(To, z), LAMBDA r :
        IF r[1] THEN PubZipperBi_rebuild_root(From, To, r[2])
        ELSE IF z.path = <<>> \/ Last(z.path).seg # "Top" THEN PANIC
        ELSE LET top == Last(z.path)
                 left == top.left \o <<z.focus>> \o top.right
                 tree == rebuild(top.rebuild_tree, left)
             IN biplate_ctx(From, To, top.ctx, tree))

PubZipperBi_go_down(To, z) ==
    LET l == list(uniplate(To, z.focus))
        siblings == l[1]
    IN IF siblings = <<>> THEN <<FALSE, z>>
       ELSE <<TRUE, [focus |-> Head(siblings),
                     path |-> Append(z.path,
                                 [seg |-> "Node", left |-> <<>>,
                                  right |-> Tail(siblings),
                                  rebuild_tree |-> l[2], ctx |-> z.focus])]>>

PubZipperBi_go_left(z) ==
    IF z.path = <<>> THEN <<FALSE, z>>
    ELSE LET path_segment == Last(z.path) IN
         IF path_segment.left = <<>> THEN <<FALSE, z>>
         ELSE <<TRUE, [focus |-> Head(path_segment.left),
                       path |-> Append(Front(z.path),
                                   [path_segment EXCEPT
                                       !.left = Tail(@),
                                       !.right = Append(@, z.focus)])]>>

PubZipperBi_go_right(z) ==
    IF z.path = <<>> THEN <<FALSE, z>>
    ELSE LET path_segment == Last(z.path) IN
         IF path_segment.right = <<>> THEN <<FALSE, z>>
         ELSE <<TRUE, [focus |-> Head(path_segment.right),
                       path |-> Append(Front(z.path),
                                   [path_segment EXCEPT
                                       !.right = Tail(@),
                                       !.left = Append(@, z.focus)])]>>

\* ---------------------------------------------------------------------
\* tagged_zipper.rs: TaggedZipper<T, D, F> as [zipper, tag_node, heap,
\* calls].  The Rc<RefCell<TagNode<D>>> cells are the elements of heap, a
\* reference to one is its index, parent 0 is None.  calls is what the
\* FnMut constructor has seen: the arguments of its calls, in order, since
\* the caller last cleared it.  A move returns <<moved, tz>>, or PANIC
\* where an unwrap() or an index fails.
\* ---------------------------------------------------------------------

\* The constructor F the zipper is made with: a function of the focus.
construct_tag(focus) == <<"constructed", focus>>

TagNode(data, parent) == [data |-> data, parent |-> parent, children |-> <<>>]

TaggedZipper_new(root) ==
    [zipper |-> PubZipper_new(root),
     tag_node |-> 1,
     heap |-> <<TagNode(construct_tag(root), 0)>>,
     calls |-> <<root>>]

TaggedZipper_tag(tz) == tz.heap[tz.tag_node].data

\* *tag_mut() = new_tag
TaggedZipper_tag_mut(tz, new_tag) ==
    [tz EXCEPT !.heap[tz.tag_node].data = new_tag]

\* replace_tag returns <<old tag, tz>>.
TaggedZipper_replace_tag(tz, new_tag) ==
    <<tz.heap[tz.tag_node].data,
      [tz EXCEPT !.heap[tz.tag_node].data = new_tag]>>

\* A reset_tag that hands the tag back and leaves the one stored in place.
TaggedZipper_reset_tag_keeps_tag(tz) ==
    <<tz.heap[tz.tag_node].data,
      [tz EXCEPT !.calls = Append(@, tz.zipper.focus)]>>

\* reset_tag: the constructor is applied to the focus and its result is
\* stored with replace_tag; returns <<old tag, tz>>.
TaggedZipper_reset_tag(tz) ==
    LET new_tag == construct_tag(tz.zipper.focus) IN
    TaggedZipper_replace_tag([tz EXCEPT !.calls = Append(@, tz.zipper.focus)],
                             new_tag)

\* invalidate_subtree: a new tag node with the parent of the old one
\* becomes the tag node of the focus; the children of the parent are not
\* touched.
TaggedZipper_invalidate_subtree(tz) ==
    LET parent_node == tz.heap[tz.tag_node].parent
        new_tag == TagNode(construct_tag(tz.zipper.focus), parent_node)
    IN [tz EXCEPT !.heap = Append(@, new_tag),
                  !.tag_node = Len(tz.heap) + 1,
                  !.calls = Append(@, tz.zipper.focus)]

\* replace_focus returns <<old focus, tz>>.
TaggedZipper_replace_focus(tz, new_focus) ==
    Eval(PubZipper_replace_focus(tz.zipper, new_focus), LAMBDA r :
        <<r[1], TaggedZipper_invalidate_subtree([tz EXCEPT !.zipper = r[2]])>>)

TaggedZipper_go_up(T, tz) ==
    Eval(PubZipper_go_up(T, tz.zipper), LAMBDA r :
        IF ~r[1] THEN <<FALSE, tz>>
        ELSE LET parent_tag == tz.heap[tz.tag_node].parent IN
             IF parent_tag = 0 THEN PANIC
             ELSE <<TRUE, [tz EXCEPT !.zipper = r[2],
                                     !.tag_node = parent_tag]>>)

TaggedZipper_go_down(T, tz) ==
    Eval(PubZipper_go_down(T, tz.zipper), LAMBDA r :
        IF ~r[1] THEN <<FALSE, tz>>
        ELSE LET kids == tz.heap[tz.tag_node].children IN
             IF kids # <<>>
             THEN <<TRUE, [tz EXCEPT !.zipper = r[2], !.tag_node = Head(kids)]>>
             ELSE LET new_tag == TagNode(construct_tag(r[2].focus), tz.tag_node)
                      id == Len(tz.heap) + 1
                  IN <<TRUE,
                       [zipper |-> r[2],
                        tag_node |-> id,
                        heap |-> Append([tz.heap EXCEPT
                                            ![tz.tag_node].children =
                                                Append(@, id)],
                                        new_tag),
                        calls |-> Append(tz.calls, r[2].focus)]>>)

TaggedZipper_go_left(tz) ==
    Eval(PubZipper_go_left(tz.zipper), LAMBDA r :
        IF ~r[1] THEN <<FALSE, tz>>
        ELSE LET parent_node == tz.heap[tz.tag_node].parent
                 siblings_i == PubZipper_siblings_index(r[2])
             IN IF parent_node = 0 \/ siblings_i = None THEN PANIC
                ELSE IF siblings_i[2] + 1 > Len(tz.heap[parent_node].children)
                THEN PANIC
                ELSE <<TRUE,
                       [tz EXCEPT !.zipper = r[2],
                                  !.tag_node = tz.heap[parent_node].children
                                                   [siblings_i[2] + 1]]>>)

TaggedZipper_go_right(tz) ==
    Eval(PubZipper_go_right(tz.zipper), LAMBDA r :
        IF ~r[1] THEN <<FALSE, tz>>
        ELSE LET parent_tag_node == tz.heap[tz.tag_node].parent
                 sibling_idx == PubZipper_siblings_index(r[2])
             IN IF parent_tag_node = 0 \/ sibling_idx = None THEN PANIC
                ELSE LET kids == tz.heap[parent_tag_node].children IN
                     IF sibling_idx[2] + 1 <= Len(kids)
                     THEN <<TRUE, [tz EXCEPT !.zipper = r[2],
                                             !.tag_node = kids[sibling_idx[2] + 1]]>>
                     ELSE LET new_tag == TagNode(construct_tag(r[2].focus),
                                                 parent_tag_node)
                              id == Len(tz.heap) + 1
                          IN <<TRUE,
                               [zipper |-> r[2],
                                tag_node |-> id,
                                heap |-> Append([tz.heap EXCEPT
                                                    ![parent_tag_node].children =
                                                        Append(@, id)],
                                                new_tag),
                                calls |-> Append(tz.calls, r[2].focus)]>>)

\* ---------------------------------------------------------------------
\* Inputs
\* ---------------------------------------------------------------------

\* The expressions and leaf statements the inputs are built from.
Conds == {Neg(Var("c"))}

AssignLeaves == {Assign("x", Div(Val(2), Var("y"))), Assign("z", Val(0))}

\* StmtsOfSize(n): the statements with exactly n Stmt constructors.
\* SeqsOfSize(m): the lists of statements with m constructors in total.
RECURSIVE StmtsOfSize(_)
RECURSIVE SeqsOfSize(_)
StmtsOfSize(n) ==
    IF n < 1 THEN {}
    ELSE (IF n = 1 THEN AssignLeaves ELSE {})
         \cup {Sequence(ss) : ss \in SeqsOfSize(n - 1)}
         \cup {While(c, a) : c \in Conds, a \in StmtsOfSize(n - 1)}
         \cup UNION {{If(c, a, b) : c \in Conds, a \in StmtsOfSize(k),
                                    b \in StmtsOfSize(n - 1 - k)}
                     : k \in 1..(n - 2)}

SeqsOfSize(m) ==
    IF m = 0 THEN {<<>>}
    ELSE UNION {{<<a>> \o rest : a \in StmtsOfSize(k),
                                rest \in SeqsOfSize(m - k)}
                : k \in 1..m}

Stmts == UNION {StmtsOfSize(n) : n \in 1..MaxSize}

\* The leaf values of the input trees (a Tree<i32>).
LeafVals == {I32(0), I32(1)}

\* TreesOfSize(n): the trees with exactly n Zero/One/Many nodes.
RECURSIVE TreesOfSize(_)
RECURSIVE TreeSeqsOfSize(_)
TreesOfSize(n) ==
    IF n < 1 THEN {}
    ELSE (IF n = 1 THEN {Zero} \cup {One(v) : v \in LeafVals} ELSE {})
         \cup {Many(ts) : ts \in TreeSeqsOfSize(n - 1)}

TreeSeqsOfSize(m) ==
    IF m = 0 THEN {<<>>}
    ELSE UNION {{<<a>> \o rest : a \in TreesOfSize(k),
                                rest \in TreeSeqsOfSize(m - k)}
                : k \in 1..m}

Trees == UNION {TreesOfSize(n) : n \in 1..MaxTreeSize}

\* Replacement values, by type.
Pool(T) ==
    CASE T = "Stmt" -> {Assign("p", Val(7)), While(Var("q"), Assign("r", Val(8)))}
      [] T = "Expr" -> {Val(9), Neg(Var("e"))}
      [] T = "String" -> {Str("s"), Str("t")}
      [] T = "i32" -> {I32(5), I32(6)}
      [] T = "Vec<Stmt>" -> {VecOf(<<>>), VecOf(<<Assign("p", Val(7))>>)}

RECURSIVE SeqsUpTo(_, _)
SeqsUpTo(S, n) ==
    IF n = 0 THEN {<<>>}
    ELSE LET shorter == SeqsUpTo(S, n - 1) IN
         shorter \cup {Append(xs, x) : xs \in {ys \in shorter : Len(ys) = n - 1},
                                       x \in S}

ToTypes == {"Stmt", "Expr", "String"}

\* ---------------------------------------------------------------------
\* State
\* ---------------------------------------------------------------------

VARIABLES
    node,   \* the value the operations are called on
    ret,    \* the last call: its name, arguments and result
    iter,   \* the iterator obtained from node, if any
    items   \* the items the iterator has yielded so far, oldest first

vars == <<node, ret, iter, items>>

NoCall == [op |-> "none"]
NoIter == [kind |-> "none"]

\* ---------------------------------------------------------------------
\* Spec: the operations of Uniplate and Biplate called on a statement
\* ---------------------------------------------------------------------

Init ==
    /\ node \in Stmts
    /\ ret = NoCall
    /\ iter = NoIter
    /\ items = <<>>

Children ==
    /\ ret = NoCall
    /\ ret' = [op |-> "children", out |-> children("Stmt", node)]
    /\ UNCHANGED <<node, iter, items>>

WithChildren ==
    /\ ret = NoCall
    /\ \E cs \in SeqsUpTo(Pool("Stmt"), MaxChildren) \cup {children("Stmt", node)} :
          ret' = [op |-> "with_children", arg |-> cs,
                  out |-> with_children("Stmt", node, cs)]
    /\ UNCHANGED <<node, iter, items>>

\* A second with_children on the result of the first, putting the original
\* children back.
RestoreChildren ==
    /\ ret.op = "with_children"
    /\ ret.out # PANIC
    /\ ret' = [op |-> "restore", arg |-> ret.arg, mid |-> ret.out,
               out |-> with_children("Stmt", ret.out, children("Stmt", node))]
    /\ UNCHANGED <<node, iter, items>>

Universe ==
    /\ ret = NoCall
    /\ ret' = [op |-> "universe", out |-> universe("Stmt", node)]
    /\ UNCHANGED <<node, iter, items>>

Descend ==
    /\ ret = NoCall
    /\ \E f \in FnNames :
          ret' = [op |-> "descend", arg |-> f,
                  out |-> descend("Stmt", node, <<"fn", f>>)]
    /\ UNCHANGED <<node, iter, items>>

Transform ==
    /\ ret = NoCall
    /\ \E f \in FnNames :
          ret' = [op |-> "transform", arg |-> f,
                  out |-> transform("Stmt", node, <<"fn", f>>)]
    /\ UNCHANGED <<node, iter, items>>

Rewrite ==
    /\ ret = NoCall
    /\ \E r \in RuleNames :
          ret' = [op |-> "rewrite", arg |-> r,
                  out |-> rewrite("Stmt", node, r)]
    /\ UNCHANGED <<node, iter, items>>

ChildrenBi ==
    /\ ret = NoCall
    /\ \E To \in ToTypes :
          ret' = [op |-> "children_bi", to |-> To,
                  out |-> children_bi("Stmt", To, node)]
    /\ UNCHANGED <<node, iter, items>>

WithChildrenBi ==
    /\ ret = NoCall
    /\ \E To \in ToTypes :
       \E cs \in SeqsUpTo(Pool(To), MaxChildren) \cup {children_bi("Stmt", To, node)} :
          ret' = [op |-> "with_children_bi", to |-> To, arg |-> cs,
                  out |-> with_children_bi("Stmt", To, node, cs)]
    /\ UNCHANGED <<node, iter, items>>

UniverseBi ==
    /\ ret = NoCall
    /\ \E To \in ToTypes :
          ret' = [op |-> "universe_bi", to |-> To,
                  out |-> universe_bi("Stmt", To, node)]
    /\ UNCHANGED <<node, iter, items>>

Next ==
    \/ Children
    \/ WithChildren
    \/ RestoreChildren
    \/ Universe
    \/ Descend
    \/ Transform
    \/ Rewrite
    \/ ChildrenBi
    \/ WithChildrenBi
    \/ UniverseBi

Spec == Init /\ [][Next]_vars

\* ---------------------------------------------------------------------
\* Positions of a statement, read off the enum declaration of Stmt
\* ---------------------------------------------------------------------

\* The statements held directly in the fields of a statement.
StmtKids(n) ==
    CASE n[1] = "Sequence" -> n[2][2]
      [] n[1] = "If" -> <<n[3], n[4]>>
      [] n[1] = "While" -> <<n[3]>>
      [] OTHER -> <<>>

\* The positions of n as paths of child indices, in preorder.
RECURSIVE PreorderPaths(_)
PreorderPaths(n) ==
    LET ks == StmtKids(n) IN
    <<<<>>>> \o Concat([i \in 1..Len(ks) |->
                          LET sub == PreorderPaths(ks[i]) IN
                          [k \in 1..Len(sub) |-> <<i>> \o sub[k]]])

RECURSIVE At(_, _)
At(n, path) ==
    IF path = <<>> THEN n ELSE At(StmtKids(n)[Head(path)], Tail(path))

\* n with the statement at the given position replaced by x.
RECURSIVE ReplaceAt(_, _, _)
ReplaceAt(n, path, x) ==
    IF path = <<>> THEN x
    ELSE LET i == Head(path)
             sub == ReplaceAt(StmtKids(n)[i], Tail(path), x)
         IN CASE n[1] = "Sequence" -> Sequence([n[2][2] EXCEPT ![i] = sub])
              [] n[1] = "If" -> [n EXCEPT ![i + 2] = sub]
              [] n[1] = "While" -> [n EXCEPT ![3] = sub]

\* ---------------------------------------------------------------------
\* Properties of Spec
\* ---------------------------------------------------------------------

\* C1: with_children(n, children(n)) = n, and with_children_bi(n,
\* children_bi(n)) = n for every destination type.
C1_ReconstructionIdentity ==
    /\ (ret.op = "with_children" /\ ret.arg = children("Stmt", node))
          => ret.out = node
    /\ (ret.op = "with_children_bi" /\ ret.arg = children_bi("Stmt", ret.to, node))
          => ret.out = node

C1_Witness ==
    /\ ret.op = "with_children"
    /\ ret.arg = children("Stmt", node)
    /\ Len(ret.arg) >= 2
    /\ ret.arg[1] # ret.arg[2]
    /\ ret.out = node

\* C3: universe(n) lists the statements at the positions of n in preorder:
\* n first, then the universe of each child from left to right, every
\* position exactly once.
C3_UniversePreorder ==
    ret.op = "universe" =>
        LET ps == PreorderPaths(node)
            ks == StmtKids(node)
        IN /\ Len(ret.out) = Len(ps)
           /\ \A k \in 1..Len(ps) : ret.out[k] = At(node, ps[k])
           /\ ret.out[1] = node
           /\ ret.out = <<node>> \o Concat([i \in 1..Len(ks) |-> universe("Stmt", ks[i])])

C3_Witness ==
    /\ ret.op = "universe"
    /\ Len(StmtKids(node)) >= 2
    /\ Len(StmtKids(StmtKids(node)[1])) >= 1
    /\ Len(ret.out) = 4

\* C4: with_children and with_children_bi panic whenever the number of
\* children given differs from the number of children of the node, be it
\* smaller or larger.
C4_WrongCountPanics ==
    /\ (ret.op = "with_children" /\ Len(ret.arg) # Len(children("Stmt", node)))
          => ret.out = PANIC
    /\ (ret.op = "with_children_bi"
           /\ Len(ret.arg) # Len(children_bi("Stmt", ret.to, node)))
          => ret.out = PANIC

C4_Witness ==
    /\ ret.op = "with_children"
    /\ Len(children("Stmt", node)) >= 1
    /\ Len(ret.arg) > Len(children("Stmt", node))
    /\ ret.out = PANIC

\* C8: transform with the identity function returns the statement unchanged.
C8_TransformIdentity ==
    (ret.op = "transform" /\ ret.arg = "id") => ret.out = node

C8_Witness ==
    /\ ret.op = "transform"
    /\ ret.arg = "id"
    /\ Len(PreorderPaths(node)) >= 4
    /\ ret.out = node

\* C9: rewrite(t, r) is a fixpoint of the rule r: no statement in the
\* universe of the result can still be rewritten by r.
C9_RewriteFixpoint ==
    ret.op = "rewrite" =>
        LET u == universe("Stmt", ret.out) IN
        \A k \in 1..Len(u) : Rule(ret.arg, u[k]) = None

\* C10: for a child list cs of the right length, the children of
\* with_children(n, cs) are cs, and putting the children of n back gives a
\* statement with the children of n.
C10_ChildrenOfWithChildren ==
    /\ (ret.op = "with_children" /\ Len(ret.arg) = Len(children("Stmt", node)))
          => /\ ret.out # PANIC
             /\ children("Stmt", ret.out) = ret.arg
    /\ ret.op = "restore"
          => /\ ret.out # PANIC
             /\ children("Stmt", ret.out) = children("Stmt", node)

C10_Witness ==
    /\ ret.op = "restore"
    /\ Len(ret.arg) >= 2
    /\ ret.mid # node
    /\ children("Stmt", ret.mid) = ret.arg
    /\ children("Stmt", ret.out) = children("Stmt", node)

\* ---------------------------------------------------------------------
\* SpecTree: Tree::list and the rebuilder it returns, called on a Tree<i32>
\* ---------------------------------------------------------------------

InitTree ==
    /\ node \in Trees
    /\ ret = NoCall
    /\ iter = NoIter
    /\ items = <<>>

\* (xs, rebuild) = node.list()
TreeList ==
    /\ ret = NoCall
    /\ ret' = [op |-> "list", out |-> list(node)[1], rebuilder |-> list(node)[2]]
    /\ UNCHANGED <<node, iter, items>>

\* rebuild(xs) for the rebuilder of an earlier list(), with the listed
\* leaves or with any other list.
TreeRebuild ==
    /\ ret.op = "list"
    /\ \E xs \in SeqsUpTo(Pool("i32"), MaxChildren) \cup {ret.out} :
          ret' = [op |-> "rebuild", arg |-> xs, listed |-> ret.out,
                  out |-> rebuild(ret.rebuilder, xs)]
    /\ UNCHANGED <<node, iter, items>>

NextTree ==
    \/ TreeList
    \/ TreeRebuild

SpecTree == InitTree /\ [][NextTree]_vars

\* C2: the rebuilder of t.list(), called with the listed leaves, returns a
\* tree equal to t.
C2_ListRoundTrip ==
    (ret.op = "rebuild" /\ ret.arg = ret.listed) => ret.out = node

C2_Witness ==
    /\ ret.op = "rebuild"
    /\ ret.arg = ret.listed
    /\ Len(ret.arg) >= 2
    /\ ret.arg[1] # ret.arg[2]
    /\ \E i \in 1..Len(node[2]) : node[2][i][1] = "Many"
    /\ \E i \in 1..Len(node[2]) : node[2][i][1] = "Zero"
    /\ ret.out = node

\* C23: the rebuilder of t.list() panics whenever it is called with a
\* sequence whose length differs from the number of One leaves of t, shorter
\* or longer; it never returns a tree that drops the surplus elements.
C23_RebuildPanicsOnLengthMismatch ==
    (ret.op = "rebuild" /\ Len(ret.arg) # Len(ret.listed)) => ret.out = PANIC

\* The same for the sequences that are too short.
C23_RebuildPanicsWhenShort ==
    (ret.op = "rebuild" /\ Len(ret.arg) < Len(ret.listed)) => ret.out = PANIC

\* ---------------------------------------------------------------------
\* SpecContexts: the iterators of contexts() and contexts_bi() on a
\* statement, and calls of the hole functions they yielded
\* ---------------------------------------------------------------------

InitContexts ==
    /\ node \in Stmts
    /\ ret = NoCall
    /\ items = <<>>
    /\ \/ iter = ContextIter_new(node)
       \/ \E T \in ToTypes : iter = ContextIterBi_new("Stmt", T, node)

\* ContextIter::next
ContextIterNext ==
    /\ iter.kind = "contexts"
    /\ IF iter.done
       THEN /\ ret' = [op |-> "next", out |-> None]
            /\ UNCHANGED <<iter, items>>
       ELSE LET zipper1 == iter.zipper
                adv == ContextIter_advance("Stmt", iter.zipper)
            IN /\ iter' = [iter EXCEPT !.zipper = adv[1], !.done = adv[2]]
               /\ items' = Append(items, [node |-> zipper1.focus,
                                          hole_fn |-> zipper1])
               /\ ret' = [op |-> "next", out |-> Some(zipper1.focus)]
    /\ UNCHANGED node

\* ContextIterBi::next
ContextIterBiNext ==
    /\ iter.kind = "contexts_bi"
    /\ IF iter.done \/ iter.zipper = None
       THEN /\ ret' = [op |-> "next", out |-> None]
            /\ UNCHANGED <<iter, items>>
       ELSE LET zipper1 == iter.zipper[2]
                adv == ContextIterBi_advance(iter.to, zipper1)
            IN /\ iter' = [iter EXCEPT !.zipper = Some(adv[1]), !.done = adv[2]]
               /\ items' = Append(items, [node |-> zipper1.focus,
                                          hole_fn |-> zipper1])
               /\ ret' = [op |-> "next", out |-> Some(zipper1.focus)]
    /\ UNCHANGED node

\* A call of the hole function of the k-th item of contexts(), between
\* two steps of the iterator.
ContextHoleFn ==
    /\ iter.kind = "contexts"
    /\ ret.op = "next"
    /\ \E k \in 1..Len(items) :
       \E x \in Pool("Stmt") \cup {items[k].node} :
          ret' = [op |-> "hole_fn", k |-> k, arg |-> x,
                  out |-> ContextIter_hole_fn("Stmt", items[k].hole_fn, x)]
    /\ UNCHANGED <<node, iter, items>>

NextContexts ==
    \/ ContextIterNext
    \/ ContextIterBiNext
    \/ ContextHoleFn

SpecContexts == InitContexts /\ [][NextContexts]_vars

Nodes(its) == [k \in 1..Len(its) |-> its[k].node]
IsPrefix(xs, ys) == Len(xs) <= Len(ys) /\ xs = SubSeq(ys, 1, Len(xs))

\* The sequence the iterator is to yield: universe(t), or universe_bi(t).
Expected ==
    IF iter.kind = "contexts" THEN universe("Stmt", node)
    ELSE universe_bi("Stmt", iter.to, node)

\* C5: the items of contexts(t) carry, in order, exactly the elements of
\* universe(t), after which every next() returns None; the same for
\* contexts_bi(t) and universe_bi(t), also when both are empty.
C5_ContextsAreUniverse ==
    iter.kind \in {"contexts", "contexts_bi"} =>
        /\ IsPrefix(Nodes(items), Expected)
        /\ (ret.op = "next" /\ ret.out = None) => Nodes(items) = Expected
        /\ (ret.op = "next" /\ ret.out # None) => ret.out = Some(Last(items).node)

C5_Witness ==
    /\ iter.kind = "contexts"
    /\ ret.op = "next" /\ ret.out = None
    /\ Len(items) >= 4
    /\ \E i \in 1..Len(items) : Len(PreorderPaths(node)[i]) = 2

\* The bi case where the statement has no child of the destination type.
C5_WitnessEmpty ==
    /\ iter.kind = "contexts_bi" /\ iter.to = "Expr"
    /\ ret.op = "next" /\ ret.out = None
    /\ items = <<>>

\* C6: the hole function of the k-th item of contexts(t), called with x,
\* returns t with the node at the k-th preorder position replaced by x,
\* wherever the iterator stands and whatever was called before.
C6_ReplaceAtPosition ==
    (iter.kind = "contexts" /\ ret.op = "hole_fn") =>
        ret.out = ReplaceAt(node, PreorderPaths(node)[ret.k], ret.arg)

\* A replacement below the root, left of a sibling, called after the
\* iterator has run to its end.
C6_Witness ==
    /\ iter.kind = "contexts" /\ iter.done
    /\ ret.op = "hole_fn"
    /\ ret.arg # items[ret.k].node
    /\ Len(PreorderPaths(node)[ret.k]) = 2
    /\ ret.k < Len(items)
    /\ ret.out = ReplaceAt(node, PreorderPaths(node)[ret.k], ret.arg)
    /\ ret.out # node

\* ---------------------------------------------------------------------
\* SpecHoles: the iterators of holes() and holes_bi() on a statement
\* ---------------------------------------------------------------------

InitHoles ==
    /\ node \in Stmts
    /\ ret = NoCall
    /\ items = <<>>
    /\ \/ iter = HolesIter_new("Stmt", node)
       \/ \E T \in ToTypes : iter = HolesIterBi_new("Stmt", T, node)

\* HolesIter::next
HolesIterNext ==
    /\ iter.kind = "holes"
    /\ IF iter.children_iter >= Len(iter.children)
       THEN /\ ret' = [op |-> "next", out |-> None]
            /\ UNCHANGED <<iter, items>>
       ELSE LET i == iter.children_iter
                child == iter.children[i + 1]
            IN /\ iter' = [iter EXCEPT !.children_iter = i + 1]
               /\ items' = Append(items,
                              [node |-> child,
                               hole |-> [children2 |-> iter.children,
                                         parent2 |-> iter.parent, i |-> i]])
               /\ ret' = [op |-> "next", out |-> Some(child)]
    /\ UNCHANGED node

\* HolesIterBi::next
HolesIterBiNext ==
    /\ iter.kind = "holes_bi"
    /\ IF iter.children_iter >= Len(iter.children)
       THEN /\ ret' = [op |-> "next", out |-> None]
            /\ UNCHANGED <<iter, items>>
       ELSE LET i == iter.children_iter
                child == iter.children[i + 1]
            IN /\ iter' = [iter EXCEPT !.children_iter = i + 1]
               /\ items' = Append(items,
                              [node |-> child,
                               hole |-> [children2 |-> iter.children,
                                         parent2 |-> iter.parent, i |-> i]])
               /\ ret' = [op |-> "next", out |-> Some(child)]
    /\ UNCHANGED node

\* A call of the hole function of the k-th item of holes().
HolesFill ==
    /\ iter.kind = "holes"
    /\ ret.op = "next"
    /\ \E k \in 1..Len(items) :
       \E x \in Pool("Stmt") \cup {items[k].node} :
          LET h == items[k].hole IN
          ret' = [op |-> "hole", k |-> k, arg |-> x,
                  out |-> HolesIter_hole("Stmt", h.parent2, h.children2, h.i, x)]
    /\ UNCHANGED <<node, iter, items>>

\* A call of the hole function of the k-th item of holes_bi().
HolesBiFill ==
    /\ iter.kind = "holes_bi"
    /\ ret.op = "next"
    /\ \E k \in 1..Len(items) :
       \E x \in Pool(iter.to) \cup {items[k].node} :
          LET h == items[k].hole IN
          ret' = [op |-> "hole_bi", k |-> k, arg |-> x,
                  out |-> HolesIterBi_hole("Stmt", iter.to, h.parent2,
                                           h.children2, h.i, x)]
    /\ UNCHANGED <<node, iter, items>>

NextHoles ==
    \/ HolesIterNext
    \/ HolesIterBiNext
    \/ HolesFill
    \/ HolesBiFill

SpecHoles == InitHoles /\ [][NextHoles]_vars

\* C7: holes(n) yields the direct children of n in order and then ends;
\* the hole function of the i-th item, called with x, returns
\* with_children(n, children(n) with the i-th replaced by x); the same
\* for holes_bi with children_bi and with_children_bi.
C7_HolesFillOneChild ==
    /\ iter.kind = "holes" =>
          /\ IsPrefix(Nodes(items), children("Stmt", node))
          /\ (ret.op = "next" /\ ret.out = None)
                => Nodes(items) = children("Stmt", node)
          /\ ret.op = "hole" =>
                /\ ret.out = with_children("Stmt", node,
                       [children("Stmt", node) EXCEPT ![ret.k] = ret.arg])
                /\ ret.out = ReplaceAt(node, <<ret.k>>, ret.arg)
    /\ iter.kind = "holes_bi" =>
          /\ IsPrefix(Nodes(items), children_bi("Stmt", iter.to, node))
          /\ (ret.op = "next" /\ ret.out = None)
                => Nodes(items) = children_bi("Stmt", iter.to, node)
          /\ ret.op = "hole_bi" =>
                ret.out = with_children_bi("Stmt", iter.to, node,
                    [children_bi("Stmt", iter.to, node) EXCEPT ![ret.k] = ret.arg])

C7_Witness ==
    /\ iter.kind = "holes"
    /\ Len(items) = 2 /\ Len(children("Stmt", node)) = 2
    /\ ret.op = "hole" /\ ret.k = 2
    /\ ret.arg # items[2].node
    /\ ret.out # node
    /\ children("Stmt", ret.out) = <<items[1].node, ret.arg>>

C7_WitnessBi ==
    /\ iter.kind = "holes_bi" /\ iter.to = "Expr"
    /\ Len(items) >= 2
    /\ ret.op = "hole_bi" /\ ret.k = 1
    /\ ret.arg # items[1].node
    /\ children_bi("Stmt", "Expr", ret.out) = [Nodes(items) EXCEPT ![1] = ret.arg]

\* ---------------------------------------------------------------------
\* SpecBi: the Biplate operations on a source of any type with an
\* instance: a statement, an expression, a String, an i32, a Vec<Stmt>
\* ---------------------------------------------------------------------

\* The static type of a value, read off its tag.
TypeOf(x) ==
    CASE x[1] \in {"Assign", "Sequence", "If", "While"} -> "Stmt"
      [] x[1] \in {"Add", "Sub", "Mul", "Div", "Val", "Var", "Neg"} -> "Expr"
      [] x[1] = "String" -> "String"
      [] x[1] = "i32" -> "i32"
      [] x[1] = "Vec" -> "Vec<Stmt>"

ExprSources ==
    {Val(2), Var("y"), Div(Val(2), Var("y")), Neg(Var("c")),
     Add(Neg(Val(1)), Var("y"))}

VecItems == AssignLeaves \cup {Sequence(<<>>), Sequence(<<Assign("z", Val(0))>>)}

VecSources == {VecOf(ss) : ss \in SeqsUpTo(VecItems, MaxChildren)}

BiSources ==
    Stmts \cup ExprSources \cup Pool("String") \cup Pool("i32") \cup VecSources

BiToTypes == {"Stmt", "Expr", "String", "i32", "Vec<Stmt>"}

InitBi ==
    /\ node \in BiSources
    /\ ret = NoCall
    /\ iter = NoIter
    /\ items = <<>>

\* Biplate::children_bi, for every instance of the source type
SrcChildrenBi ==
    /\ ret = NoCall
    /\ \E To \in BiToTypes :
          /\ ImplsBiplate(TypeOf(node), To)
          /\ ret' = [op |-> "children_bi", to |-> To,
                     out |-> children_bi(TypeOf(node), To, node)]
    /\ UNCHANGED <<node, iter, items>>

\* Biplate::with_children_bi with the children, one of them replaced
SrcWithChildrenBi ==
    /\ ret = NoCall
    /\ \E To \in BiToTypes :
          /\ ImplsBiplate(TypeOf(node), To)
          /\ LET kids == children_bi(TypeOf(node), To, node) IN
             \E cs \in {kids} \cup {[kids EXCEPT ![i] = y] :
                                      i \in 1..Len(kids), y \in Pool(To)} :
                ret' = [op |-> "with_children_bi", to |-> To, arg |-> cs,
                        out |-> with_children_bi(TypeOf(node), To, node, cs)]
    /\ UNCHANGED <<node, iter, items>>

\* Biplate::universe_bi
SrcUniverseBi ==
    /\ ret = NoCall
    /\ \E To \in BiToTypes :
          /\ ImplsBiplate(TypeOf(node), To)
          /\ ret' = [op |-> "universe_bi", to |-> To,
                     out |-> universe_bi(TypeOf(node), To, node)]
    /\ UNCHANGED <<node, iter, items>>

NextBi ==
    \/ SrcChildrenBi
    \/ SrcWithChildrenBi
    \/ SrcUniverseBi

SpecBi == InitBi /\ [][NextBi]_vars

\* C11: when the destination type is the source type, children_bi
\* returns the one-element sequence [self]: for a derived enum, a
\* primitive and a Vec<Stmt>, the empty Vec included.
C11_IdentityWins ==
    (ret.op = "children_bi" /\ ret.to = TypeOf(node)) => ret.out = <<node>>

\* The part of C11 that the code keeps: the derived and the primitive types.
C11_IdentityWinsExceptVec ==
    (ret.op = "children_bi" /\ ret.to = TypeOf(node)
        /\ TypeOf(node) \notin IterTypes) => ret.out = <<node>>

\* C12: in the identity case the reconstructor returns the value it is
\* given, x.with_children_bi([y]) = y, and a replaced leaf of a primitive
\* type inside a larger value is there in the result.
C12_IdentityReconstructor ==
    /\ (ret.op = "with_children_bi" /\ ret.to = TypeOf(node)
           /\ Len(ret.arg) = 1 /\ ret.out # PANIC)
          => ret.out = ret.arg[1]
    /\ (ret.op = "with_children_bi" /\ ret.to \in UnplateableTypes
           /\ ret.out # PANIC)
          => children_bi(TypeOf(node), ret.to, ret.out) = ret.arg

\* The part of C12 that the code keeps: the derived identity instances.
C12_DerivedIdentityReconstructor ==
    (ret.op = "with_children_bi" /\ ret.to = TypeOf(node)
        /\ TypeOf(node) \in DerivedTypes /\ Len(ret.arg) = 1)
       => ret.out = ret.arg[1]

\* The values of type To contained in x, the value itself included, in
\* depth-first left-to-right order of the fields and the Vec elements.
RECURSIVE Occurrences(_, _)
Occurrences(To, x) ==
    LET here == IF TypeOf(x) = To THEN <<x>> ELSE <<>>
        parts == CASE x[1] = "Vec" -> x[2]
                   [] x[1] \in {"String", "i32"} -> <<>>
                   [] OTHER -> Tail(x)
    IN here \o Concat([i \in 1..Len(parts) |-> Occurrences(To, parts[i])])

\* C13: universe_bi to To returns every value of type To contained in
\* the node, each occurrence once, in depth-first left-to-right order.
C13_UniverseBiAllOccurrences ==
    ret.op = "universe_bi" => ret.out = Occurrences(ret.to, node)

\* The part of C13 that the code keeps: every destination but Vec<Stmt>.
C13_UniverseBiNonVecTargets ==
    (ret.op = "universe_bi" /\ ret.to \notin IterTypes)
       => ret.out = Occurrences(ret.to, node)

\* ---------------------------------------------------------------------
\* SpecZipper: a Zipper<Stmt> or a ZipperBi<To, Stmt> on a statement and
\* the calls of its methods.  iter.pos is a history variable: the position
\* the calls made so far lead to, as a path of child indices (go_down
\* appends 1, go_right adds one, go_left takes one off, go_up drops the
\* last).  For a ZipperBi, iter.some tells whether ZipperBi::new returned
\* Some.
\* ---------------------------------------------------------------------

\* The i-th child of a root is one of two statements that no other child
\* can be.
ZipperLeaf(i) == Assign("x", Neg(Val(i)))
ZipperKid(i) == {ZipperLeaf(i), Sequence(<<ZipperLeaf(i)>>)}

RECURSIVE ZipperKidSeqs(_)
ZipperKidSeqs(n) ==
    IF n = 0 THEN {<<>>}
    ELSE {Append(ks, k) : ks \in ZipperKidSeqs(n - 1), k \in ZipperKid(n)}

ZipperRoots ==
    {Sequence(ks) : ks \in UNION {ZipperKidSeqs(n) : n \in 0..MaxSiblings}}
    \cup {While(Var("c"), k) : k \in ZipperKid(1)}
    \cup {If(Var("c"), k1, k2) : k1 \in ZipperKid(1), k2 \in ZipperKid(2)}

ZipperBiToTypes == {"Stmt", "Expr"}

InitZipper ==
    /\ node \in ZipperRoots
    /\ ret = NoCall
    /\ items = <<>>
    /\ \/ iter = [kind |-> "zipper", zipper |-> PubZipper_new(node),
                  pos |-> <<>>]
       \/ \E To \in ZipperBiToTypes :
             LET z == PubZipperBi_new("Stmt", To, node) IN
             iter = [kind |-> "zipper_bi", to |-> To,
                     zipper |-> IF z = None THEN None ELSE z[2],
                     some |-> z # None,
                     pos |-> IF z = None THEN <<>> ELSE <<1>>]

\* The effect of a move that returned r = <<moved, zipper>>.
Moved(op, r, newpos) ==
    /\ ret' = [op |-> op, ok |-> r[1]]
    /\ iter' = [iter EXCEPT !.zipper = r[2],
                            !.pos = IF r[1] THEN newpos ELSE @]
    /\ UNCHANGED <<node, items>>

ZipperGoUp ==
    /\ iter.kind = "zipper"
    /\ Moved("go_up", PubZipper_go_up("Stmt", iter.zipper), Front(iter.pos))

ZipperGoDown ==
    /\ iter.kind = "zipper"
    /\ Moved("go_down", PubZipper_go_down("Stmt", iter.zipper),
             Append(iter.pos, 1))

ZipperGoLeft ==
    /\ iter.kind = "zipper"
    /\ Moved("go_left", PubZipper_go_left(iter.zipper),
             Append(Front(iter.pos), Last(iter.pos) - 1))

ZipperGoRight ==
    /\ iter.kind = "zipper"
    /\ Moved("go_right", PubZipper_go_right(iter.zipper),
             Append(Front(iter.pos), Last(iter.pos) + 1))

\* rebuild_root consumes the zipper.
ZipperRebuildRoot ==
    /\ iter.kind = "zipper"
    /\ ret' = [op |-> "rebuild_root", ok |-> TRUE,
               out |-> PubZipper_rebuild_root("Stmt", iter.zipper)]
    /\ iter' = [kind |-> "consumed", was |-> "zipper"]
    /\ UNCHANGED <<node, items>>

ZipperBiGoUp ==
    /\ iter.kind = "zipper_bi" /\ iter.some
    /\ Moved("go_up", PubZipperBi_go_up(iter.to, iter.zipper), Front(iter.pos))

ZipperBiGoDown ==
    /\ iter.kind = "zipper_bi" /\ iter.some
    /\ Moved("go_down", PubZipperBi_go_down(iter.to, iter.zipper),
             Append(iter.pos, 1))

ZipperBiGoLeft ==
    /\ iter.kind = "zipper_bi" /\ iter.some
    /\ Moved("go_left", PubZipperBi_go_left(iter.zipper),
             Append(Front(iter.pos), Last(iter.pos) - 1))

ZipperBiGoRight ==
    /\ iter.kind = "zipper_bi" /\ iter.some
    /\ Moved("go_right", PubZipperBi_go_right(iter.zipper),
             Append(Front(iter.pos), Last(iter.pos) + 1))

ZipperBiRebuildRoot ==
    /\ iter.kind = "zipper_bi" /\ iter.some
    /\ ret' = [op |-> "rebuild_root", ok |-> TRUE,
               out |-> PubZipperBi_rebuild_root("Stmt", iter.to, iter.zipper)]
    /\ iter' = [kind |-> "consumed", was |-> "zipper_bi"]
    /\ UNCHANGED <<node, items>>

NextZipper ==
    \/ ZipperGoUp
    \/ ZipperGoDown
    \/ ZipperGoLeft
    \/ ZipperGoRight
    \/ ZipperRebuildRoot
    \/ ZipperBiGoUp
    \/ ZipperBiGoDown
    \/ ZipperBiGoLeft
    \/ ZipperBiGoRight
    \/ ZipperBiRebuildRoot

SpecZipper == InitZipper /\ [][NextZipper]_vars

\* The focus of the level d of a zipper: the focus itself at the last
\* level, above it the value the next level was entered from.
LevelFocus(z, d) == IF d = Len(z.path) THEN z.focus ELSE z.path[d + 1].ctx

\* Every level of the zipper lists the children of the node it was entered
\* from, in order, and the first level was entered from the root.
LevelsInOrder(T, z, root) ==
    \A d \in 1..Len(z.path) :
        /\ z.path[d].left \o <<LevelFocus(z, d)>> \o z.path[d].right
              = children(T, z.path[d].ctx)
        /\ d = 1 => z.path[d].ctx = root

\* C14: after any go_down, go_up, go_left and go_right calls on a Zipper,
\* with no replace_focus, left ++ [focus] ++ right is at every path level
\* the list of the parent's children in their original order, and
\* rebuild_root returns the root the Zipper was created from.
C14_LevelsKeepOrder ==
    iter.kind = "zipper" =>
        /\ LevelsInOrder("Stmt", iter.zipper, node)
        /\ PubZipper_rebuild_root("Stmt", iter.zipper) = node

\* The children of the parent of the focus, in their order: the children
\* of the node the last level was entered from.
ZipperSiblings ==
    LET seg == Last(iter.zipper.path) IN
    IF iter.kind = "zipper" THEN children("Stmt", seg.ctx)
    ELSE IF seg.seg = "Top" THEN children_bi("Stmt", iter.to, seg.ctx)
    ELSE children(iter.to, seg.ctx)

\* C15: a successful go_left from the i-th child makes the (i-1)-th child
\* the focus, a successful go_right the (i+1)-th, whatever sibling moves
\* came before, and the sibling moved over is the nearest element of the
\* opposite list (the front of right, the back of left); for Zipper and
\* ZipperBi.  Last(iter.pos) is the index the moves so far lead to.
C15_SiblingMoves ==
    (/\ iter.kind \in {"zipper", "zipper_bi"}
     /\ ret.op \in {"go_left", "go_right"}
     /\ ret.ok)
    => LET seg == Last(iter.zipper.path)
           kids == ZipperSiblings
           i == Last(iter.pos)
       IN /\ i \in 1..Len(kids)
          /\ iter.zipper.focus = kids[i]
          /\ ret.op = "go_left" =>
                /\ seg.right # <<>>
                /\ i + 1 <= Len(kids)
                /\ Head(seg.right) = kids[i + 1]
          /\ ret.op = "go_right" =>
                /\ seg.left # <<>>
                /\ i - 1 >= 1
                /\ Last(seg.left) = kids[i - 1]

\* The four moves of the zipper of the state, as <<moved, zipper>>.
ZipperMove(op) ==
    LET z == iter.zipper IN
    IF iter.kind = "zipper"
    THEN CASE op = "go_up" -> PubZipper_go_up("Stmt", z)
           [] op = "go_down" -> PubZipper_go_down("Stmt", z)
           [] op = "go_left" -> PubZipper_go_left(z)
           [] op = "go_right" -> PubZipper_go_right(z)
    ELSE CASE op = "go_up" -> PubZipperBi_go_up(iter.to, z)
           [] op = "go_down" -> PubZipperBi_go_down(iter.to, z)
           [] op = "go_left" -> PubZipperBi_go_left(z)
           [] op = "go_right" -> PubZipperBi_go_right(z)

\* Where the claim says a move is refused: go_up at the top (the root of a
\* Zipper, the first level of a ZipperBi), go_down at a focus without
\* children, go_left at the first sibling, go_right at the last one.
MoveRefused(op) ==
    LET T == IF iter.kind = "zipper" THEN "Stmt" ELSE iter.to
        top == IF iter.kind = "zipper" THEN 0 ELSE 1
    IN CASE op = "go_up" -> Len(iter.pos) = top
         [] op = "go_down" -> children(T, iter.zipper.focus) = <<>>
         [] op = "go_left" -> iter.pos = <<>> \/ Last(iter.pos) = 1
         [] op = "go_right" ->
               iter.pos = <<>> \/ Last(iter.pos) = Len(ZipperSiblings)

ZipperMoves == {"go_up", "go_down", "go_left", "go_right"}

HasZipper ==
    \/ iter.kind = "zipper"
    \/ iter.kind = "zipper_bi" /\ iter.some

\* C17: in Zipper and ZipperBi a move where it is refused returns None,
\* without a panic, and leaves the focus and the whole path as they were;
\* anywhere else it returns Some(()).  Both for the move made last and for
\* each move that could be made next.
C17_RefusedMovesChangeNothing ==
    HasZipper =>
        /\ \A op \in ZipperMoves :
              LET r == ZipperMove(op) IN
              /\ r # PANIC
              /\ r[2].focus # PANIC
              /\ r[1] <=> ~MoveRefused(op)
              /\ ~r[1] => r[2] = iter.zipper
        /\ (ret.op \in ZipperMoves /\ ~ret.ok) => MoveRefused(ret.op)

\* A go_right refused at the last of three siblings, and a go_up refused
\* at the first level of a ZipperBi.
C17_Witness ==
    /\ HasZipper
    /\ ret.op \in {"go_right", "go_up"}
    /\ ~ret.ok
    /\ Len(iter.pos) = 1
    /\ Last(iter.pos) = 3
    /\ Len(ZipperSiblings) = 3
    /\ iter.kind = "zipper_bi" <=> ret.op = "go_up"

\* The path of a ZipperBi: a Top segment, then Node segments only.
TopThenNodes(path) ==
    /\ path # <<>>
    /\ path[1].seg = "Top"
    /\ \A i \in 2..Len(path) : path[i].seg = "Node"

\* The path has the shape above in every state; go_up leaves the Top
\* segment in place and returns None exactly at depth() = 1; rebuild_root
\* does not reach its unreachable!(); ZipperBi::new returns None exactly
\* for a root without children of the type To.
C28_PathShape ==
    iter.kind = "zipper_bi" =>
        /\ iter.some <=> children_bi("Stmt", iter.to, node) # <<>>
        /\ iter.some =>
              /\ TopThenNodes(iter.zipper.path)
              /\ LET r == PubZipperBi_go_up(iter.to, iter.zipper) IN
                 /\ r[1] <=> Len(iter.zipper.path) # 1
                 /\ TopThenNodes(r[2].path)
                 /\ ~r[1] => r[2] = iter.zipper
              /\ PubZipperBi_rebuild_root("Stmt", iter.to, iter.zipper) # PANIC

\* C28: in every state of a ZipperBi the path is not empty, its first
\* segment is a Top and the others are Node segments; go_up never pops the
\* Top segment and returns None exactly when depth() is 1; no
\* unreachable!() of go_up and rebuild_root is executed; rebuild_root on a
\* zipper whose focus was never replaced returns the root it was made
\* from; and ZipperBi::new returns None exactly when the root has no child
\* of the destination type.
C28_ZipperBiPath ==
    /\ C28_PathShape
    /\ (iter.kind = "zipper_bi" /\ iter.some) =>
          PubZipperBi_rebuild_root("Stmt", iter.to, iter.zipper) = node
    /\ (ret.op = "rebuild_root" /\ iter.was = "zipper_bi") => ret.out = node

\* A fresh ZipperBi rebuilds the root it was made from, and go_up, go_down
\* and go_right leave the root that rebuild_root returns as it is.
C28_RootStep ==
    (iter.kind = "zipper_bi" /\ iter'.kind = "zipper_bi" /\ iter.some
     /\ ret'.op # "go_left") =>
        PubZipperBi_rebuild_root("Stmt", iter.to, iter'.zipper)
            = PubZipperBi_rebuild_root("Stmt", iter.to, iter.zipper)

C28_OnlyGoLeftChangesRoot ==
    /\ (ret.op = "none" /\ iter.kind = "zipper_bi" /\ iter.some) =>
          PubZipperBi_rebuild_root("Stmt", iter.to, iter.zipper) = node
    /\ [][C28_RootStep]_vars

\* ---------------------------------------------------------------------
\* SpecZipperEdit: a Zipper<Stmt> whose focus is replaced once, among any
\* moves.  items logs the replace_focus call: its position, its value and
\* the root that the replace function of contexts() gives for them; ret
\* keeps what the call returned and the zipper before and after it.
\* ---------------------------------------------------------------------

\* The k-th pair of contexts(t): the zipper its hole function captures.
RECURSIVE contexts_nth(_, _, _)
contexts_nth(T, it, k) ==
    IF k = 1 THEN it.zipper
    ELSE Eval(ContextIter_advance(T, it.zipper), LAMBDA adv :
            contexts_nth(T, [it EXCEPT !.zipper = adv[1], !.done = adv[2]],
                         k - 1))

\* The index of a position in the preorder of t.
IndexOf(t, pos) ==
    CHOOSE k \in 1..Len(PreorderPaths(t)) : PreorderPaths(t)[k] = pos

\* The root that the replace function of contexts(t) paired with the
\* position gives for the value v.
\* (NoSuchPosition when the tree has no node there).
NoSuchPosition == <<"NoSuchPosition">>

ContextsReplace(t, pos, v) ==
    IF \E k \in 1..Len(PreorderPaths(t)) : PreorderPaths(t)[k] = pos
    THEN ContextIter_hole_fn("Stmt",
            contexts_nth("Stmt", ContextIter_new(t), IndexOf(t, pos)), v)
    ELSE NoSuchPosition

\* The statements edited: without children, with three children, with
\* children that have children.
EditRoots ==
    {ZipperLeaf(1),
     Sequence(<<>>),
     Sequence(<<ZipperLeaf(1), ZipperLeaf(2), ZipperLeaf(3)>>),
     Sequence(<<Sequence(<<ZipperLeaf(1), ZipperLeaf(2)>>), ZipperLeaf(3)>>),
     If(Var("c"), ZipperLeaf(1), Sequence(<<ZipperLeaf(2)>>))}

InitZipperEdit ==
    /\ node \in EditRoots
    /\ ret = NoCall
    /\ items = <<>>
    /\ iter = [kind |-> "zipper", zipper |-> PubZipper_new(node), pos |-> <<>>,
               went_left |-> FALSE]

\* The effect of a move that returned r = <<moved, zipper>>;
\* iter.went_left tells whether a go_left has moved the focus.
EditMoved(op, r, newpos) ==
    /\ iter' = [iter EXCEPT !.zipper = r[2],
                            !.pos = IF r[1] THEN newpos ELSE @,
                            !.went_left = @ \/ (r[1] /\ op = "go_left")]
    /\ UNCHANGED <<node, ret, items>>

EditGoUp ==
    /\ iter.kind = "zipper"
    /\ EditMoved("go_up", PubZipper_go_up("Stmt", iter.zipper), Front(iter.pos))

EditGoDown ==
    /\ iter.kind = "zipper"
    /\ EditMoved("go_down", PubZipper_go_down("Stmt", iter.zipper),
                 Append(iter.pos, 1))

EditGoLeft ==
    /\ iter.kind = "zipper"
    /\ EditMoved("go_left", PubZipper_go_left(iter.zipper),
                 Append(Front(iter.pos), Last(iter.pos) - 1))

EditGoRight ==
    /\ iter.kind = "zipper"
    /\ EditMoved("go_right", PubZipper_go_right(iter.zipper),
                 Append(Front(iter.pos), Last(iter.pos) + 1))

\* replace_focus, once
EditReplaceFocus ==
    /\ iter.kind = "zipper"
    /\ items = <<>>
    /\ \E v \in Pool("Stmt") :
          LET r == PubZipper_replace_focus(iter.zipper, v) IN
          /\ ret' = [op |-> "replace_focus", arg |-> v, out |-> r[1],
                     before |-> iter.zipper, after |-> r[2]]
          /\ iter' = [iter EXCEPT !.zipper = r[2]]
          /\ items' = <<[pos |-> iter.pos, value |-> v,
                         expected |-> ContextsReplace(node, iter.pos, v)]>>
    /\ UNCHANGED node

\* rebuild_root consumes the zipper.
EditRebuildRoot ==
    /\ iter.kind = "zipper"
    /\ ret' = [op |-> "rebuild_root",
               out |-> PubZipper_rebuild_root("Stmt", iter.zipper)]
    /\ iter' = [kind |-> "consumed", pos |-> iter.pos,
                went_left |-> iter.went_left]
    /\ UNCHANGED <<node, items>>

NextZipperEdit ==
    \/ EditGoUp
    \/ EditGoDown
    \/ EditGoLeft
    \/ EditGoRight
    \/ EditReplaceFocus
    \/ EditRebuildRoot

SpecZipperEdit == InitZipperEdit /\ [][NextZipperEdit]_vars

\* C16: whatever moves come before and after the replace_focus(v) made at
\* the position p, rebuild_root returns what the replace function that
\* contexts() pairs with p returns for v.
C16_RebuildRootIsContextsReplace ==
    (iter.kind = "zipper" /\ items # <<>>)
    => PubZipper_rebuild_root("Stmt", iter.zipper) = items[1].expected

\* The same when no go_left has moved the focus.
C16_RebuildRootWithoutGoLeft ==
    (iter.kind = "zipper" /\ items # <<>> /\ ~iter.went_left)
    => PubZipper_rebuild_root("Stmt", iter.zipper) = items[1].expected

\* k go_right calls, each of which has to move
RECURSIVE go_right_times(_, _)
go_right_times(z, k) ==
    IF k = 0 THEN <<TRUE, z>>
    ELSE Eval(go_right_times(z, k - 1), LAMBDA r :
            IF r[1] THEN PubZipper_go_right(r[2]) ELSE r)

\* go_down, k go_right, replace_focus(v), go_up
DownRightReplaceUp(z, k, v) ==
    Eval(PubZipper_go_down("Stmt", z), LAMBDA d :
    Eval(go_right_times(d[2], k), LAMBDA r :
    Eval(PubZipper_replace_focus(r[2], v), LAMBDA e :
    Eval(PubZipper_go_up("Stmt", e[2]), LAMBDA u :
        [moved |-> d[1] /\ r[1] /\ u[1], zipper |-> u[2]]))))

\* C18: replace_focus(v) returns the previous focus and changes the focus
\* only, every path frame stays as it was; and the edit is in the parent
\* once go_up has rebuilt it: go_down, k go_right, replace_focus(v), go_up
\* from any focus give that focus with its k-th child (from 0) replaced by
\* v, at the same path, and in a run without go_left a focus at or above
\* the replaced position is the original node there with v at that
\* position.
C18_ReplaceFocusFrame ==
    /\ ret.op = "replace_focus" =>
          /\ ret.out = ret.before.focus
          /\ ret.after.focus = ret.arg
          /\ ret.after.path = ret.before.path
    /\ iter.kind = "zipper" =>
          \A k \in 0..(Len(children("Stmt", iter.zipper.focus)) - 1) :
             \A v \in Pool("Stmt") :
                LET s == DownRightReplaceUp(iter.zipper, k, v) IN
                /\ s.moved
                /\ s.zipper.focus = ReplaceAt(iter.zipper.focus, <<k + 1>>, v)
                /\ s.zipper.path = iter.zipper.path
    /\ (/\ iter.kind = "zipper"
        /\ items # <<>>
        /\ ~iter.went_left
        /\ IsPrefix(iter.pos, items[1].pos))
       => iter.zipper.focus =
             ReplaceAt(At(node, iter.pos),
                       SubSeq(items[1].pos, Len(iter.pos) + 1,
                              Len(items[1].pos)),
                       items[1].value)

\* go_down, go_right, replace_focus(v) and go_up have been called: the
\* focus is the root with its second child replaced.
C18_Witness ==
    /\ iter.kind = "zipper"
    /\ ret.op = "replace_focus"
    /\ items # <<>>
    /\ items[1].pos = <<2>>
    /\ Len(ret.before.path) = 1
    /\ ret.before.path[1].left # <<>>
    /\ iter.pos = <<>>
    /\ ~iter.went_left
    /\ iter.zipper.focus # node
    /\ iter.zipper.focus = ReplaceAt(node, <<2>>, items[1].value)

\* ---------------------------------------------------------------------
\* SpecTagged: a TaggedZipper<Stmt, D, F> and the calls of its methods.
\* iter.pos is the position the moves made so far lead to.  items is the
\* tag every position is to have: the one constructed when the position
\* was first reached, or reached again after a replace_focus or an
\* invalidate_subtree at it or above it, until a tag is written there;
\* written tells which of the two, and items.invalidated keeps the
\* positions replaced or invalidated.
\* ---------------------------------------------------------------------

TaggedRoots ==
    {ZipperLeaf(1),
     While(Var("c"), ZipperLeaf(1)),
     Sequence(<<ZipperLeaf(1), ZipperLeaf(2)>>),
     Sequence(<<Sequence(<<ZipperLeaf(1)>>), ZipperLeaf(2)>>),
     While(Var("c"), While(Var("c"), ZipperLeaf(1)))}

\* The tags the caller writes: 42 first, then 43, ...
WrittenTags == {<<"i32", 42 + iter.writes>>}

InitTagged ==
    /\ node \in TaggedRoots
    /\ ret = NoCall
    /\ iter = [kind |-> "tagged", tz |-> TaggedZipper_new(node), pos |-> <<>>,
               writes |-> 0, invalidations |-> 0]
    /\ items = [tags |-> (<<>> :> [tag |-> construct_tag(node),
                                   written |-> FALSE]),
                invalidated |-> {}]

\* The tags to expect once the cursor is at the position p with the focus f.
Visited(p, f) ==
    IF p \in DOMAIN items.tags THEN items
    ELSE [items EXCEPT !.tags = @ @@ (p :> [tag |-> construct_tag(f),
                                           written |-> FALSE])]

\* The zipper as an operation finds it: the constructor's call log cleared.
Cleared(tz) == [tz EXCEPT !.calls = <<>>]

\* The effect of a move that returned r: <<moved, tz>> or PANIC.
TaggedMoved(op, r, newpos) ==
    /\ node' = node
    /\ IF r = PANIC
       THEN /\ ret' = [op |-> op, ok |-> FALSE, panic |-> TRUE]
            /\ iter' = [kind |-> "panicked"]
            /\ items' = items
       ELSE /\ ret' = [op |-> op, ok |-> r[1], panic |-> FALSE]
            /\ iter' = [iter EXCEPT !.tz = r[2],
                                    !.pos = IF r[1] THEN newpos ELSE @]
            /\ items' = IF r[1] THEN Visited(newpos, r[2].zipper.focus)
                        ELSE items

TaggedGoUp ==
    /\ iter.kind = "tagged"
    /\ TaggedMoved("go_up", TaggedZipper_go_up("Stmt", Cleared(iter.tz)), Front(iter.pos))

TaggedGoDown ==
    /\ iter.kind = "tagged"
    /\ TaggedMoved("go_down", TaggedZipper_go_down("Stmt", Cleared(iter.tz)),
                   Append(iter.pos, 1))

TaggedGoLeft ==
    /\ iter.kind = "tagged"
    /\ TaggedMoved("go_left", TaggedZipper_go_left(Cleared(iter.tz)),
                   Append(Front(iter.pos), Last(iter.pos) - 1))

TaggedGoRight ==
    /\ iter.kind = "tagged"
    /\ TaggedMoved("go_right", TaggedZipper_go_right(Cleared(iter.tz)),
                   Append(Front(iter.pos), Last(iter.pos) + 1))

\* The tags to expect after the tag t is written at the position p.
Written(p, t) ==
    [items EXCEPT !.tags[p] = [tag |-> t, written |-> TRUE]]

TaggedTagMut ==
    /\ iter.kind = "tagged"
    /\ iter.writes < MaxTagWrites
    /\ \E t \in WrittenTags :
          /\ ret' = [op |-> "tag_mut", arg |-> t]
          /\ iter' = [iter EXCEPT !.tz = TaggedZipper_tag_mut(Cleared(iter.tz), t),
                                  !.writes = @ + 1]
          /\ items' = Written(iter.pos, t)
    /\ UNCHANGED node

TaggedReplaceTag ==
    /\ iter.kind = "tagged"
    /\ iter.writes < MaxTagWrites
    /\ \E t \in WrittenTags :
          LET r == TaggedZipper_replace_tag(Cleared(iter.tz), t) IN
          /\ ret' = [op |-> "replace_tag", arg |-> t, out |-> r[1]]
          /\ iter' = [iter EXCEPT !.tz = r[2], !.writes = @ + 1]
          /\ items' = Written(iter.pos, t)
    /\ UNCHANGED node

\* The tags to expect after the position p got the focus f by replace_focus
\* or was invalidated: none at p and below it but the one constructed for f.
Invalidated(p, f) ==
    LET kept == {q \in DOMAIN items.tags : ~IsPrefix(p, q)} IN
    [tags |-> [q \in kept \cup {p} |->
                  IF q = p THEN [tag |-> construct_tag(f), written |-> FALSE]
                  ELSE items.tags[q]],
     invalidated |-> items.invalidated \cup {p}]

TaggedReplaceFocus ==
    /\ iter.kind = "tagged"
    /\ iter.invalidations < MaxInvalidations
    /\ \E v \in Pool("Stmt") :
          LET r == TaggedZipper_replace_focus(Cleared(iter.tz), v) IN
          /\ ret' = [op |-> "replace_focus", arg |-> v, out |-> r[1]]
          /\ iter' = [iter EXCEPT !.tz = r[2], !.invalidations = @ + 1]
          /\ items' = Invalidated(iter.pos, v)
          /\ node' = ContextsReplace(node, iter.pos, v)

TaggedInvalidateSubtree ==
    /\ iter.kind = "tagged"
    /\ iter.invalidations < MaxInvalidations
    /\ ret' = [op |-> "invalidate_subtree"]
    /\ iter' = [iter EXCEPT !.tz = TaggedZipper_invalidate_subtree(Cleared(iter.tz)),
                            !.invalidations = @ + 1]
    /\ items' = Invalidated(iter.pos, iter.tz.zipper.focus)
    /\ UNCHANGED node

\* tag(): the tag of the focus is read.
TaggedTag ==
    /\ iter.kind = "tagged"
    /\ ret' = [op |-> "tag", out |-> TaggedZipper_tag(iter.tz)]
    /\ iter' = [iter EXCEPT !.tz = Cleared(iter.tz)]
    /\ UNCHANGED <<node, items>>

\* reset_tag(): the tag of the focus is constructed anew.
TaggedResetTag ==
    /\ iter.kind = "tagged"
    /\ LET r == TaggedZipper_reset_tag(Cleared(iter.tz)) IN
       /\ ret' = [op |-> "reset_tag", out |-> r[1]]
       /\ iter' = [iter EXCEPT !.tz = r[2]]
       /\ items' = [items EXCEPT !.tags[iter.pos].tag =
                                     construct_tag(iter.tz.zipper.focus)]
    /\ UNCHANGED node

NextTagged ==
    \/ TaggedGoUp
    \/ TaggedGoDown
    \/ TaggedGoLeft
    \/ TaggedGoRight
    \/ TaggedTagMut
    \/ TaggedReplaceTag
    \/ TaggedReplaceFocus
    \/ TaggedInvalidateSubtree
    \/ TaggedTag

SpecTagged == InitTagged /\ [][NextTagged]_vars

\* The position was replaced or invalidated, or one above it was.
Invalid(p) == \E q \in items.invalidated : IsPrefix(q, p)

\* C19: every position of a TaggedZipper has a tag of its own that stays:
\* at a position where a tag was written with tag_mut or replace_tag, and
\* no replace_focus or invalidate_subtree was made there or above since,
\* the tag read is the one written, whatever moves were made in between;
\* at a position never written nor invalidated it is the tag constructed
\* when the position was first reached, never the tag of another position.
C19_TagsPersist ==
    iter.kind = "tagged" =>
        LET e == items.tags[iter.pos] IN
        (e.written \/ ~Invalid(iter.pos)) => TaggedZipper_tag(iter.tz) = e.tag

\* The same in the runs without replace_focus and invalidate_subtree.
C19_TagsPersistWithoutInvalidation ==
    (iter.kind = "tagged" /\ items.invalidated = {})
    => TaggedZipper_tag(iter.tz) = items.tags[iter.pos].tag

\* C20: after replace_focus or invalidate_subtree at a position, the old
\* tags of the position and of the positions below it are never read
\* again: until a tag is written there, the tag at the position is the
\* constructor applied to the new focus, also when the cursor has moved
\* away and come back, and a position below it has the tag constructed
\* when it was next reached.
C20_InvalidatedTagsAreGone ==
    iter.kind = "tagged" =>
        LET e == items.tags[iter.pos] IN
        (Invalid(iter.pos) /\ ~e.written) => TaggedZipper_tag(iter.tz) = e.tag

\* The same right after the replace_focus or invalidate_subtree call.
C20_TagAfterInvalidation ==
    (iter.kind = "tagged" /\ ret.op \in {"replace_focus", "invalidate_subtree"})
    => TaggedZipper_tag(iter.tz) = construct_tag(iter.tz.zipper.focus)

\* ---------------------------------------------------------------------
\* The TaggedZipper with reset_tag in place of the tag writes; node is the
\* root with the replacements made so far.
\* ---------------------------------------------------------------------

\* The statements walked: a leaf, one with a child, one with two, one with
\* a grandchild.
TaggedResetRoots ==
    {ZipperLeaf(1),
     While(Var("c"), ZipperLeaf(1)),
     Sequence(<<ZipperLeaf(1), ZipperLeaf(2)>>),
     While(Var("c"), While(Var("c"), ZipperLeaf(1)))}

InitTaggedReset == InitTagged /\ node \in TaggedResetRoots

NextTaggedReset ==
    \/ TaggedGoUp
    \/ TaggedGoDown
    \/ TaggedGoLeft
    \/ TaggedGoRight
    \/ TaggedReplaceFocus
    \/ TaggedInvalidateSubtree
    \/ TaggedResetTag

SpecTaggedReset == InitTaggedReset /\ [][NextTaggedReset]_vars

\* The tags read at the ancestors of the focus, nearest first.
RECURSIVE AncestorTags(_)
AncestorTags(tz) ==
    Eval(TaggedZipper_go_up("Stmt", tz), LAMBDA r :
        IF r = PANIC THEN <<PANIC>>
        ELSE IF ~r[1] THEN <<>>
        ELSE <<TaggedZipper_tag(r[2])>> \o AncestorTags(r[2]))

C21_Step ==
    (iter.kind = "tagged" /\ iter'.kind = "tagged") =>
        /\ ret'.op = "replace_focus" =>
               AncestorTags(iter'.tz) = AncestorTags(iter.tz)
        /\ ret'.op = "reset_tag" =>
               /\ ret'.out = TaggedZipper_tag(iter.tz)
               /\ iter'.tz.zipper.focus = At(node', iter'.pos)
               /\ TaggedZipper_tag(iter'.tz)
                      = construct_tag(At(node', iter'.pos))
               /\ AncestorTags(iter'.tz) = AncestorTags(iter.tz)

\* C21: replace_focus leaves the tags of all the ancestors of the focus as
\* they were; reset_tag, also at an ancestor reached with go_up after a
\* replacement below it, returns the tag the focus had and sets it to the
\* constructor applied to the focus, which is the subtree there rebuilt
\* with the replacements.
C21_ResetTagAfterReplaceFocus == [][C21_Step]_vars

\* reset_tag was called above a replaced position, and changed the tag.
C21_Witness ==
    /\ iter.kind = "tagged"
    /\ ret.op = "reset_tag"
    /\ \E q \in items.invalidated : IsPrefix(iter.pos, q) /\ q # iter.pos
    /\ ret.out # TaggedZipper_tag(iter.tz)
    /\ TaggedZipper_tag(iter.tz) = construct_tag(At(node, iter.pos))

C22_Step ==
    (iter.kind = "tagged" /\ iter'.kind = "tagged") =>
        LET calls == iter'.tz.calls
            focus == iter'.tz.zipper.focus
        IN IF ret'.op \in {"replace_focus", "invalidate_subtree", "reset_tag"}
           THEN calls = <<focus>>
           ELSE IF ret'.op \in {"go_down", "go_right"} /\ ret'.ok
           THEN \/ calls = <<>>
                \/ calls = <<focus>> /\ iter'.pos \notin DOMAIN items.tags
           ELSE calls = <<>>

\* C22: the tag constructor is called only as necessary: once for the
\* root by new; once for the focus by replace_focus, invalidate_subtree
\* and reset_tag; by go_down and go_right once for the new focus when the
\* position moved to has no tag yet; and never by go_up, go_left, a move
\* that fails, a move to a position that has a tag, or a tag read.
C22_ConstructorCalledAsNecessary ==
    /\ (ret.op = "none" => iter.tz.calls = <<node>>)
    /\ [][C22_Step]_vars

\* The same in the runs without replace_focus and invalidate_subtree.
C22_CallsWithoutInvalidation ==
    /\ (ret.op = "none" => iter.tz.calls = <<node>>)
    /\ [][items'.invalidated = {} => C22_Step]_vars

\* ---------------------------------------------------------------------
\* uniplate-derive, ast/typ.rs: the parser of a field type.
\* A syn::Type is <<"Path", segments, arguments>> for a type path, the
\* arguments being those of its last segment, or <<kind, ...>> for one of
\* the other kinds of type.  A generic argument is <<"Type", ty>> or
\* <<"Lifetime">>.
\* ---------------------------------------------------------------------

SynPath(segments, arguments) == <<"Path", segments, arguments>>
NoArguments == <<"None">>
AngleBracketed(args) == <<"AngleBracketed", args>>
Parenthesized == <<"Parenthesized">>
TypeArg(ty) == <<"Type", ty>>
LifetimeArg == <<"Lifetime">>

\* enum Type and the results of its parser.
Unplateable == <<"Unplateable">>
PlateableType(wrapper_typ, base_typ) == <<"Plateable", wrapper_typ, base_typ>>
BoxedPlateableType(inner_typ, box_typ) == <<"BoxedPlateable", inner_typ, box_typ>>
Ok(x) == <<"Ok", x>>
Err(msg) == <<"Err", msg>>

\* Type::base_typ
Type_base_typ(t) ==
    CASE t[1] = "BoxedPlateable" -> Some(t[2][3])
      [] t[1] = "Plateable" -> Some(t[3])
      [] OTHER -> None

\* The idents of the segments with "::" between them.
RECURSIVE type_str(_)
type_str(segments) ==
    IF Len(segments) <= 1 THEN segments
    ELSE <<Head(segments), "::">> \o type_str(Tail(segments))

BOX_PREFIXES ==
    {<<"::", "std", "::", "boxed", "::", "Box">>,
     <<"std", "::", "boxed", "::", "Box">>,
     <<"Box">>}

\* "Is the outermost type a box?": the locals of parse after lines 65-97,
\* an error, or PANIC for a Box without a type argument list.
Type_parse_outermost(path) ==
    LET st == [base_path |-> path, wrapper_path |-> Some(path),
               box_type |-> None, any_args |-> FALSE]
    IN IF type_str(path[2]) \notin BOX_PREFIXES THEN Ok(st)
       ELSE IF path[3][1] # "AngleBracketed" THEN PANIC
       ELSE IF path[3][2] = <<>> THEN PANIC
       ELSE LET arg == path[3][2][1] IN
            IF arg[1] # "Type" \/ arg[2][1] # "Path"
            THEN Err("Biplate: expected type argument here")
            ELSE Ok([st EXCEPT !.base_path = arg[2],
                               !.box_type = Some("Box")])

\* The while loop of lines 99-150 on the locals st.
RECURSIVE Type_parse_arguments(_)
Type_parse_arguments(st) ==
    LET args == st.base_path[3] IN
    IF args[1] # "AngleBracketed" THEN Ok(st)
    ELSE IF Len(args[2]) # 1
    THEN Err("Biplate: expected one generic argument here")
    ELSE LET arg == args[2][1] IN
         IF arg[1] # "Type" \/ arg[2][1] # "Path"
         THEN Err("Biplate: expected type argument here")
         ELSE LET new_box_type ==
                      IF type_str(arg[2][2]) \in BOX_PREFIXES
                      THEN Some("Box") ELSE None
              IN IF new_box_type # None /\ st.box_type # None
                 THEN Err("Biplate: nested Box<> is not supported.")
                 ELSE IF new_box_type # None
                 THEN Type_parse_arguments(
                          [base_path |-> arg[2], wrapper_path |-> Some(arg[2]),
                           box_type |-> new_box_type, any_args |-> FALSE])
                 ELSE Type_parse_arguments(
                          [st EXCEPT !.base_path = arg[2], !.any_args = TRUE])

\* impl Parse for Type.  The arguments of the wrapper path are cleared on a
\* clone of it, so the wrapper path keeps them.
Type_parse(typ) ==
    IF typ[1] # "Path" THEN Ok(Unplateable)
    ELSE Eval(Type_parse_outermost(typ), LAMBDA r1 :
         IF r1 = PANIC \/ r1[1] = "Err" THEN r1
         ELSE Eval(Type_parse_arguments(r1[2]), LAMBDA r2 :
              IF r2[1] = "Err" THEN r2
              ELSE LET st == r2[2] IN
                   IF st.base_path[3] # NoArguments
                   THEN Err("Biplate: expected no type arguments here.")
                   ELSE LET plateable_typ ==
                                PlateableType(IF ~st.any_args THEN None
                                              ELSE st.wrapper_path,
                                              st.base_path)
                        IN IF st.box_type # None
                           THEN Ok(BoxedPlateableType(plateable_typ, "Box"))
                           ELSE Ok(plateable_typ)))

\* ---------------------------------------------------------------------
\* SpecTypeParse: a field type is parsed, and the base type of the result
\* is taken
\* ---------------------------------------------------------------------

\* How deep the types parsed are nested.
MaxTypeDepth == 3

\* The paths that take one type argument.
Containers == {<<"Box">>, <<"std", "boxed", "Box">>, <<"Vec">>}

\* The kinds of type that are not paths and have a type inside.
NonPathKinds == {"Reference", "Ptr", "Slice", "Array"}

RECURSIVE SynTypesOfDepth(_)
SynTypesOfDepth(d) ==
    IF d = 0
    THEN {SynPath(<<"T">>, NoArguments), SynPath(<<"Fn">>, Parenthesized),
          SynPath(<<"Box">>, NoArguments),
          SynPath(<<"Box">>, AngleBracketed(<<>>)),
          SynPath(<<"Ref">>, AngleBracketed(<<LifetimeArg>>)),
          <<"BareFn">>, <<"TraitObject">>, <<"Infer">>}
    ELSE LET inner == SynTypesOfDepth(d - 1) IN
         inner
         \cup {SynPath(c, AngleBracketed(<<TypeArg(t)>>)) :
                  c \in Containers, t \in inner}
         \cup {SynPath(<<"HashMap">>,
                       AngleBracketed(<<TypeArg(SynPath(<<"T">>, NoArguments)),
                                        TypeArg(t)>>)) : t \in inner}
         \cup {<<k, t>> : k \in NonPathKinds, t \in inner}

SynTypes == SynTypesOfDepth(MaxTypeDepth)

InitTypeParse ==
    /\ node \in SynTypes
    /\ ret = NoCall
    /\ iter = NoIter
    /\ items = <<>>

\* input.parse::<ast::Type>()
TypeParse ==
    /\ ret = NoCall
    /\ ret' = [op |-> "parse", out |-> Type_parse(node)]
    /\ UNCHANGED <<node, iter, items>>

\* typ.base_typ() of a parsed type
TypeBaseTyp ==
    /\ ret.op = "parse"
    /\ ret.out[1] = "Ok"
    /\ ret' = [op |-> "base_typ", typ |-> ret.out[2],
               out |-> Type_base_typ(ret.out[2])]
    /\ UNCHANGED <<node, iter, items>>

NextTypeParse ==
    \/ TypeParse
    \/ TypeBaseTyp

SpecTypeParse == InitTypeParse /\ [][NextTypeParse]_vars

\* C25: parsing a field type that is not a type path (a reference, a raw
\* pointer, a slice, a function type, a trait object, an array, an inferred
\* type) ends in an error; it is never classified as an opaque leaf.
C25_NonPathTypeIsAnError ==
    (ret.op = "parse" /\ node[1] # "Path") => ret.out[1] = "Err"

\* The same for such a type as the argument of a path: Vec<&T> is an error.
C25_NonPathArgumentIsAnError ==
    (/\ ret.op = "parse"
     /\ node[1] = "Path"
     /\ node[3][1] = "AngleBracketed"
     /\ Len(node[3][2]) = 1
     /\ node[3][2][1][1] = "Type"
     /\ node[3][2][1][2][1] # "Path")
    => ret.out[1] = "Err"

\* A Box occurs inside another Box, directly or below paths with one type
\* argument.
RECURSIVE BoxInBox(_, _)
BoxInBox(typ, in_box) ==
    IF typ[1] # "Path" THEN FALSE
    ELSE LET box == type_str(typ[2]) \in BOX_PREFIXES IN
         \/ box /\ in_box
         \/ /\ typ[3][1] = "AngleBracketed"
            /\ Len(typ[3][2]) = 1
            /\ typ[3][2][1][1] = "Type"
            /\ BoxInBox(typ[3][2][1][2], in_box \/ box)

\* C26: parsing a field type in which a Box occurs inside another Box,
\* directly (Box<Box<T>>) or through containers with one type argument
\* (Box<Vec<Box<T>>>), returns an error; no such type is accepted as a
\* boxed plateable type.
C26_NestedBoxIsAnError ==
    (ret.op = "parse" /\ BoxInBox(node, FALSE)) => ret.out[1] = "Err"

\* The same for the types that are not themselves a Box of a Box.
C26_NestedBoxBelowContainerIsAnError ==
    (/\ ret.op = "parse"
     /\ BoxInBox(node, FALSE)
     /\ ~(/\ type_str(node[2]) \in BOX_PREFIXES
          /\ type_str(node[3][2][1][2][2]) \in BOX_PREFIXES))
    => ret.out[1] = "Err"

\* ---------------------------------------------------------------------
\* uniplate-derive, ast/derive_input.rs and state.rs: the attributes of the
\* type derived on, and the instances generated from them.
\* An attribute is [ident, props]: ident is None for a path that is not
\* one ident; props are the properties in its parentheses, <<"walk_into",
\* types>>, <<"to", type>> or <<"other">>, the types being syn::Types.
\* ---------------------------------------------------------------------

UniplateInstanceMeta(walk_into) == <<"Uniplate", walk_into>>
BiplateInstanceMeta(to, walk_into) == <<"Biplate", to, walk_into>>

\* Punctuated<ast::Type>::parse_terminated: Ok(the parsed types), the first
\* error, or PANIC.
RECURSIVE parse_types(_)
parse_types(typs) ==
    IF typs = <<>> THEN Ok(<<>>)
    ELSE Eval(Type_parse(Head(typs)), LAMBDA r :
         IF r = PANIC \/ r[1] = "Err" THEN r
         ELSE Eval(parse_types(Tail(typs)), LAMBDA rest :
              IF rest = PANIC \/ rest[1] = "Err" THEN rest
              ELSE Ok(<<r[2]>> \o rest[2])))

\* UniplateInstanceMeta::from_attribute, from the properties left to read.
RECURSIVE Uniplate_from_attribute(_, _)
Uniplate_from_attribute(props, walk_into) ==
    IF props = <<>> THEN Ok(UniplateInstanceMeta(walk_into))
    ELSE IF Head(props)[1] = "walk_into"
    THEN Eval(parse_types(Head(props)[2]), LAMBDA r :
         IF r = PANIC \/ r[1] = "Err" THEN r
         ELSE Uniplate_from_attribute(Tail(props), walk_into \o r[2]))
    ELSE Err("unrecognized property")

\* BiplateInstanceMeta::from_attribute, from the properties left to read.
RECURSIVE Biplate_from_attribute(_, _, _)
Biplate_from_attribute(props, to, walk_into) ==
    IF props = <<>>
    THEN (IF to = None THEN Err("no to type given")
          ELSE Ok(BiplateInstanceMeta(to[2], walk_into)))
    ELSE IF Head(props)[1] = "walk_into"
    THEN Eval(parse_types(Head(props)[2]), LAMBDA r :
         IF r = PANIC \/ r[1] = "Err" THEN r
         ELSE Biplate_from_attribute(Tail(props), to, walk_into \o r[2]))
    ELSE IF Head(props)[1] = "to"
    THEN IF to # None THEN Err("only one to type can be given")
         ELSE Eval(Type_parse(Head(props)[2]), LAMBDA r :
              IF r = PANIC \/ r[1] = "Err" THEN r
              ELSE Biplate_from_attribute(Tail(props), Some(r[2]), walk_into))
    ELSE Err("unrecognized property")

\* The loop of parse_many over the attributes left, then its end.
RECURSIVE parse_many_loop(_, _, _)
parse_many_loop(attrs, has_uniplate, instance_metadata) ==
    IF attrs = <<>>
    THEN Ok(IF ~has_uniplate
            THEN Append(instance_metadata, UniplateInstanceMeta(<<>>))
            ELSE instance_metadata)
    ELSE LET attr == Head(attrs) IN
         IF attr.ident = None
         THEN parse_many_loop(Tail(attrs), has_uniplate, instance_metadata)
         ELSE IF attr.ident[2] = "uniplate"
         THEN IF has_uniplate
              THEN Err("only one uniplate declaration is expected per type")
              ELSE Eval(Uniplate_from_attribute(attr.props, <<>>), LAMBDA r :
                   IF r = PANIC \/ r[1] = "Err" THEN r
                   ELSE parse_many_loop(Tail(attrs), TRUE,
                                        Append(instance_metadata, r[2])))
         ELSE IF attr.ident[2] = "biplate"
         THEN Eval(Biplate_from_attribute(attr.props, None, <<>>), LAMBDA r :
              IF r = PANIC \/ r[1] = "Err" THEN r
              ELSE parse_many_loop(Tail(attrs), has_uniplate,
                                   Append(instance_metadata, r[2])))
         ELSE parse_many_loop(Tail(attrs), has_uniplate, instance_metadata)

\* A parse_many that adds no default Uniplate instance.
InstanceMeta_parse_many_without_default(attrs) ==
    Eval(parse_many_loop(attrs, FALSE, <<>>), LAMBDA r :
        IF r = PANIC \/ r[1] = "Err" THEN r
        ELSE IF \E i \in 1..Len(attrs) :
                   attrs[i].ident = Some("uniplate")
        THEN r ELSE Ok(Front(r[2])))

\* InstanceMeta::parse_many
InstanceMeta_parse_many(attrs) == parse_many_loop(attrs, FALSE, <<>>)

\* ParserState::new: from is the type derived on; Biplate<From> for From
\* is pushed to the front.
ParserState_new(from, instance_metadata) ==
    [from |-> from,
     to |-> None,
     current_instance |-> None,
     instances_to_generate |->
         <<BiplateInstanceMeta(from, <<>>)>> \o instance_metadata,
     instances_generated |-> <<>>]

\* next_instance returns <<Some(()) or None, state>>, or PANIC at the
\* unreachable!() of a Biplate instance whose to is not Type::Plateable.
ParserState_next_instance(state) ==
    LET next_instance == IF state.instances_to_generate = <<>> THEN None
                         ELSE Some(Last(state.instances_to_generate))
        generated == IF state.current_instance = None
                     THEN state.instances_generated
                     ELSE Append(state.instances_generated,
                                 state.current_instance[2])
        popped == IF state.instances_to_generate = <<>> THEN <<>>
                  ELSE Front(state.instances_to_generate)
    IN IF next_instance # None /\ next_instance[2][1] = "Biplate"
          /\ next_instance[2][2][1] # "Plateable"
       THEN PANIC
       ELSE <<IF next_instance = None THEN None ELSE Some(<<>>),
              [state EXCEPT
                  !.instances_to_generate = popped,
                  !.instances_generated = generated,
                  !.current_instance = next_instance,
                  !.to = IF next_instance = None THEN None
                         ELSE IF next_instance[2][1] = "Uniplate"
                         THEN Some(state.from)
                         ELSE Some(next_instance[2][2])]>>

\* get_uniplate_instance: the instance, or PANIC at its unreachable!().
ParserState_get_uniplate_instance(state) ==
    LET pending == state.instances_to_generate
        generated == state.instances_generated
        IsUniplate(xs, i) == xs[i][1] = "Uniplate"
        First(xs) == xs[CHOOSE i \in 1..Len(xs) :
                           /\ IsUniplate(xs, i)
                           /\ \A j \in 1..(i - 1) : ~IsUniplate(xs, j)]
    IN IF state.current_instance # None
          /\ state.current_instance[2][1] = "Uniplate"
       THEN state.current_instance[2]
       ELSE IF \E i \in 1..Len(pending) : IsUniplate(pending, i)
       THEN First(pending)
       ELSE IF \E i \in 1..Len(generated) : IsUniplate(generated, i)
       THEN First(generated)
       ELSE PANIC

\* ---------------------------------------------------------------------
\* SpecDerive: uniplate_derive on a type with some attributes: they are
\* parsed, the ParserState is made, and next_instance is called until it
\* returns None.  node is the attributes, iter the stage reached and items
\* the instances that were current, in order.
\* ---------------------------------------------------------------------

\* How many attributes the type derived on has.
MaxAttrs == 3

TypeT == SynPath(<<"T">>, NoArguments)
TypeU == SynPath(<<"U">>, NoArguments)

\* The attributes written: with and without walk_into, a to that is a
\* path, a Box, a reference; without a to and with two; of another macro.
Attrs ==
    {[ident |-> Some("uniplate"), props |-> <<>>],
     [ident |-> Some("uniplate"), props |-> <<<<"walk_into", <<TypeT>>>>>>],
     [ident |-> Some("uniplate"), props |-> <<<<"other">>>>],
     [ident |-> Some("biplate"), props |-> <<<<"to", TypeT>>>>],
     [ident |-> Some("biplate"),
      props |-> <<<<"to", TypeU>>, <<"walk_into", <<TypeT>>>>>>],
     [ident |-> Some("biplate"),
      props |-> <<<<"to", SynPath(<<"Box">>,
                                  AngleBracketed(<<TypeArg(TypeT)>>))>>>>],
     [ident |-> Some("biplate"), props |-> <<<<"to", <<"Reference", TypeT>>>>>>],
     [ident |-> Some("biplate"), props |-> <<<<"walk_into", <<TypeT>>>>>>],
     [ident |-> Some("biplate"), props |-> <<<<"to", TypeT>>, <<"to", TypeU>>>>],
     [ident |-> Some("derive"), props |-> <<>>],
     [ident |-> None, props |-> <<>>]}

\* The type derived on, as the Type::Plateable that Data converts into.
DeriveFrom == PlateableType(None, SynPath(<<"From">>, NoArguments))

InitDerive ==
    /\ node \in SeqsUpTo(Attrs, MaxAttrs)
    /\ ret = NoCall
    /\ iter = [kind |-> "attrs"]
    /\ items = <<>>

\* input.call(InstanceMeta::parse_many)
DeriveParseMany ==
    /\ iter.kind = "attrs"
    /\ LET r == InstanceMeta_parse_many(node) IN
       /\ ret' = [op |-> "parse_many", out |-> r]
       /\ iter' = IF r = PANIC \/ r[1] = "Err" THEN [kind |-> "failed"]
                  ELSE [kind |-> "parsed", instance_metadata |-> r[2]]
    /\ UNCHANGED <<node, items>>

\* ParserState::new(input.clone())
DeriveNew ==
    /\ iter.kind = "parsed"
    /\ ret' = [op |-> "new"]
    /\ iter' = [kind |-> "state", n |-> Len(iter.instance_metadata),
                declared |-> iter.instance_metadata,
                state |-> ParserState_new(DeriveFrom, iter.instance_metadata),
                calls |-> 0, done |-> FALSE]
    /\ UNCHANGED <<node, items>>

\* One test of `while state.next_instance().is_some()`.
DeriveNextInstance ==
    /\ iter.kind = "state"
    /\ ~iter.done
    /\ LET r == ParserState_next_instance(iter.state) IN
       IF r = PANIC
       THEN /\ ret' = [op |-> "next_instance", panic |-> TRUE]
            /\ iter' = [kind |-> "panicked", n |-> iter.n,
                        declared |-> iter.declared,
                        calls |-> iter.calls + 1]
            /\ items' = items
       ELSE /\ ret' = [op |-> "next_instance", panic |-> FALSE, out |-> r[1]]
            /\ iter' = [iter EXCEPT !.state = r[2], !.calls = @ + 1,
                                    !.done = (r[1] = None)]
            /\ items' = IF r[1] = None THEN items
                        ELSE Append(items, r[2].current_instance[2])
    /\ UNCHANGED node

\* state.get_uniplate_instance()
DeriveGetUniplateInstance ==
    /\ iter.kind = "state"
    /\ ret' = [op |-> "get_uniplate_instance",
               out |-> ParserState_get_uniplate_instance(iter.state)]
    /\ UNCHANGED <<node, iter, items>>

NextDerive ==
    \/ DeriveParseMany
    \/ DeriveNew
    \/ DeriveNextInstance
    \/ DeriveGetUniplateInstance

SpecDerive == InitDerive /\ [][NextDerive]_vars

\* How many elements of xs satisfy being a Uniplate instance / attribute.
UniplateInstances(xs) ==
    Cardinality({i \in 1..Len(xs) : xs[i][1] = "Uniplate"})

UniplateAttrs(attrs) ==
    Cardinality({i \in 1..Len(attrs) : attrs[i].ident = Some("uniplate")})

\* C27: the list that parse_many returns has exactly one Uniplate
\* instance: a second #[uniplate] attribute is an error, without a
\* #[uniplate] attribute a Uniplate instance with an empty walk-into list
\* is appended; so get_uniplate_instance always finds an instance and
\* never reaches its unreachable!().
C27_ExactlyOneUniplateInstance ==
    /\ ret.op = "parse_many" =>
          /\ UniplateAttrs(node) >= 2 => ret.out[1] = "Err"
          /\ ret.out[1] = "Ok" =>
                /\ UniplateInstances(ret.out[2]) = 1
                /\ UniplateAttrs(node) = 0 =>
                      Last(ret.out[2]) = UniplateInstanceMeta(<<>>)
    /\ ret.op = "get_uniplate_instance" =>
          /\ ret.out # PANIC
          /\ ret.out[1] = "Uniplate"

\* The default instance was found among the generated ones.
C27_Witness ==
    /\ ret.op = "get_uniplate_instance"
    /\ UniplateAttrs(node) = 0
    /\ Len(node) >= 2
    /\ ret.out = UniplateInstanceMeta(<<>>)
    /\ iter.state.current_instance # None
    /\ iter.state.current_instance[2][1] = "Biplate"
    /\ UniplateInstances(iter.state.instances_generated) = 1

\* The instances in the order they are to become current: the declared
\* ones from the last to the first, then Biplate<From> for From.
RECURSIVE Reverse(_)
Reverse(xs) == IF xs = <<>> THEN <<>> ELSE Append(Reverse(Tail(xs)), Head(xs))

GenerationOrder(declared) ==
    Reverse(<<BiplateInstanceMeta(DeriveFrom, <<>>)>> \o declared)

\* C29: from ParserState::new with n declared instances, the loop
\* `while state.next_instance().is_some()` ends after exactly n + 1
\* iterations; each declared instance and Biplate<From> for From becomes
\* the current instance exactly once; the instances to generate, those
\* generated and the current one are n + 1 together at every point; and
\* when next_instance returns None, current_instance and to are None.
C29_EveryInstanceOnce ==
    /\ iter.kind # "panicked"
    /\ iter.kind = "state" =>
          LET st == iter.state
              order == GenerationOrder(iter.declared)
          IN /\ Len(st.instances_to_generate) + Len(st.instances_generated)
                   + (IF st.current_instance = None THEN 0 ELSE 1)
                = iter.n + 1
             /\ Len(items) <= iter.n + 1
             /\ items = SubSeq(order, 1, Len(items))
             /\ iter.done <=> iter.calls = iter.n + 2
             /\ iter.done =>
                   /\ Len(items) = iter.n + 1
                   /\ st.current_instance = None
                   /\ st.to = None

\* Every declared Biplate instance has a to that is Type::Plateable.
PlateableTargets(declared) ==
    \A i \in 1..Len(declared) :
        declared[i][1] = "Biplate" => declared[i][2][1] = "Plateable"

\* The same for the declarations whose to types are all plateable.
C29_EveryPlateableInstanceOnce ==
    (iter.kind \in {"state", "panicked"} /\ PlateableTargets(iter.declared))
    => C29_EveryInstanceOnce

\* ---------------------------------------------------------------------
\* SpecWalkInto: the traversal generated for one instance of Stmt or Expr,
\* declared with one walk-into list or another, on a value.  node is the
\* value, iter the ParserState while the instance is generated.
\* ---------------------------------------------------------------------

\* InstanceMeta::walk_into_type
InstanceMeta_walk_into_type(instance, typ) ==
    LET walk_into == IF instance[1] = "Uniplate" THEN instance[2]
                     ELSE instance[3]
    IN \E i \in 1..Len(walk_into) :
          Type_base_typ(typ) = Type_base_typ(walk_into[i])

\* ParserState::walk_into_type (walk_into_type_inner)
ParserState_walk_into_type(state, typ) ==
    LET base_typ == Type_base_typ(typ) IN
    IF base_typ = None THEN FALSE
    ELSE IF base_typ[2] = state.to[2][3] THEN TRUE
    ELSE IF base_typ[2] = state.from[3] THEN TRUE
    ELSE InstanceMeta_walk_into_type(state.current_instance[2], typ)

\* The syn::Type of a type of test_common/paper.rs, and of a field.
SynType(ty) ==
    IF ty = "Vec<Stmt>"
    THEN SynPath(<<"Vec">>,
                 AngleBracketed(<<TypeArg(SynPath(<<"Stmt">>, NoArguments))>>))
    ELSE SynPath(<<ty>>, NoArguments)

FieldType(field) ==
    IF field.kind = "BoxedBasic"
    THEN SynPath(<<"Box">>, AngleBracketed(<<TypeArg(SynType(field.ty))>>))
    ELSE SynType(field.ty)

\* The walk_into lists an attribute is written with.
WalkIntoLists ==
    {<<>>, <<SynType("Expr")>>, <<SynType("Stmt")>>,
     <<SynType("Expr"), SynType("Stmt")>>}

\* The attributes of the instances of a type other than Biplate<From> for
\* From, with every walk_into list.
InstanceAttrs(From) ==
    {[ident |-> Some("uniplate"), to |-> From,
      props |-> <<<<"walk_into", w>>>>] : w \in WalkIntoLists}
    \cup {[ident |-> Some("biplate"), to |-> To,
           props |-> <<<<"to", SynType(To)>>, <<"walk_into", w>>>>] :
             To \in {t \in BiToTypes : <<From, t>> \in DeclaredBiplates},
             w \in WalkIntoLists}

\* The state in which the instance of the attribute is generated: new,
\* then next_instance until it is the current one.
RECURSIVE StateAt(_, _)
StateAt(state, instance) ==
    IF state.current_instance = Some(instance) THEN state
    ELSE StateAt(ParserState_next_instance(state)[2], instance)

InitWalkInto ==
    /\ node \in Stmts \cup ExprSources
    /\ ret = NoCall
    /\ \E attr \in InstanceAttrs(TypeOf(node)) :
          LET declared == InstanceMeta_parse_many(<<attr>>)[2]
              from == Type_parse(SynType(TypeOf(node)))[2]
          IN iter = [kind |-> "walk", from |-> TypeOf(node), to |-> attr.to,
                     uniplate |-> (attr.ident = Some("uniplate")),
                     state |-> StateAt(ParserState_new(from, declared),
                                       declared[1])]
    /\ items = <<>>

\* The tree of the generated uniplate() or biplate() on node.
WalkTree ==
    /\ ret = NoCall
    /\ ret' = [op |-> "tree",
               out |-> IF iter.uniplate THEN uniplate(iter.from, node)
                       ELSE biplate(iter.from, iter.to, node)]
    /\ UNCHANGED <<node, iter, items>>

\* The tree t with the value v at every leaf.
RECURSIVE Fill(_, _)
Fill(t, v) ==
    CASE t[1] = "Zero" -> Zero
      [] t[1] = "One" -> One(v)
      [] OTHER -> Many([i \in 1..Len(t[2]) |-> Fill(t[2][i], v)])

\* The reconstruction function of the same call, on the tree or on the
\* tree with other leaves.
WalkCtx ==
    /\ ret.op = "tree"
    /\ \E tr \in {ret.out} \cup {Fill(ret.out, v) : v \in Pool(iter.to)} :
          ret' = [op |-> "ctx", arg |-> tr,
                  out |-> IF iter.uniplate
                          THEN uniplate_ctx(iter.from, node, tr)
                          ELSE biplate_ctx(iter.from, iter.to, node, tr)]
    /\ UNCHANGED <<node, iter, items>>

NextWalkInto ==
    \/ WalkTree
    \/ WalkCtx

SpecWalkInto == InitWalkInto /\ [][NextWalkInto]_vars

\* The fields of node that the instance generated does not walk into.
OpaqueFields ==
    {i \in 1..Len(Fields(node[1])) :
        ~ParserState_walk_into_type(
             iter.state, Type_parse(FieldType(Fields(node[1])[i]))[2])}

\* C24: a derived instance recurses into a field only if the base type of
\* the field is in the walk-into list of the instance or is the source or
\* the destination type; every other field contributes an empty tree and
\* is rebuilt as a clone of the field, so no value inside it is among the
\* children.
C24_OnlyWalkIntoListed ==
    /\ ret.op = "tree" =>
          \A i \in OpaqueFields : is_empty(ret.out[2][i])
    /\ ret.op = "ctx" =>
          \A i \in OpaqueFields : ret.out[i + 1] = node[i + 1]

\* The same for the fields whose type has no Biplate instance to the
\* destination type.
C24_NoInstanceIsOpaque ==
    LET none == {i \in OpaqueFields :
                    ~ImplsBiplate(Fields(node[1])[i].ty, iter.to)}
    IN /\ ret.op = "tree" => \A i \in none : ret.out[2][i] = Zero
       /\ ret.op = "ctx" => \A i \in none : ret.out[i + 1] = node[i + 1]

\* ---------------------------------------------------------------------
\* SpecCloned: a TaggedZipper<Stmt, D, F> and its clone().  The derived
\* Clone copies the Zipper (focus, path) and the Rc of the tag node, so
\* iter.a and iter.b are two cursors over one heap of tag nodes: what an
\* operation through one does to the heap, the other finds there.
\* ret.who is the cursor the operation went through.
\* ---------------------------------------------------------------------

\* The tag writes, resets, invalidations and replacements of one run.
MaxClonedEdits == 1

ClonedRoots ==
    {While(Var("c"), ZipperLeaf(1)),
     Sequence(<<ZipperLeaf(1), ZipperLeaf(2)>>)}

Cursors == {"a", "b"}

Other(who) == IF who = "a" THEN "b" ELSE "a"

\* #[derive(Clone)]: the zipper by value, the tag node by reference.
TaggedZipper_clone(tz) == tz

InitCloned ==
    /\ node \in ClonedRoots
    /\ ret = NoCall
    /\ LET tz == Cleared(TaggedZipper_new(node)) IN
       iter = [kind |-> "cloned", a |-> tz, b |-> TaggedZipper_clone(tz),
               writes |-> 0]
    /\ items = <<>>

\* The cursors after the operation through who left tz: the heap is the
\* one heap of both.
Shared(who, tz) ==
    [iter EXCEPT ![who] = Cleared(tz),
                 ![Other(who)] = [@ EXCEPT !.heap = tz.heap]]

\* The effect of a move through who that returned r: <<moved, tz>> or PANIC.
ClonedMoved(op, who, r) ==
    /\ UNCHANGED <<node, items>>
    /\ IF r = PANIC
       THEN /\ ret' = [op |-> op, who |-> who, ok |-> FALSE]
            /\ iter' = [kind |-> "panicked"]
       ELSE /\ ret' = [op |-> op, who |-> who, ok |-> r[1]]
            /\ iter' = Shared(who, r[2])

ClonedGoUp ==
    /\ iter.kind = "cloned"
    /\ \E who \in Cursors :
          ClonedMoved("go_up", who, TaggedZipper_go_up("Stmt", iter[who]))

ClonedGoDown ==
    /\ iter.kind = "cloned"
    /\ \E who \in Cursors :
          ClonedMoved("go_down", who, TaggedZipper_go_down("Stmt", iter[who]))

ClonedGoLeft ==
    /\ iter.kind = "cloned"
    /\ \E who \in Cursors :
          ClonedMoved("go_left", who, TaggedZipper_go_left(iter[who]))

ClonedGoRight ==
    /\ iter.kind = "cloned"
    /\ \E who \in Cursors :
          ClonedMoved("go_right", who, TaggedZipper_go_right(iter[who]))

ClonedTagMut ==
    /\ iter.kind = "cloned"
    /\ iter.writes < MaxClonedEdits
    /\ \E who \in Cursors, t \in WrittenTags :
          /\ ret' = [op |-> "tag_mut", who |-> who, ok |-> TRUE]
          /\ iter' = [Shared(who, TaggedZipper_tag_mut(iter[who], t))
                         EXCEPT !.writes = @ + 1]
    /\ UNCHANGED <<node, items>>

ClonedReplaceTag ==
    /\ iter.kind = "cloned"
    /\ iter.writes < MaxClonedEdits
    /\ \E who \in Cursors, t \in WrittenTags :
          /\ ret' = [op |-> "replace_tag", who |-> who, ok |-> TRUE]
          /\ iter' = [Shared(who, TaggedZipper_replace_tag(iter[who], t)[2])
                         EXCEPT !.writes = @ + 1]
    /\ UNCHANGED <<node, items>>

ClonedResetTag ==
    /\ iter.kind = "cloned"
    /\ iter.writes < MaxClonedEdits
    /\ \E who \in Cursors :
          /\ ret' = [op |-> "reset_tag", who |-> who, ok |-> TRUE]
          /\ iter' = [Shared(who, TaggedZipper_reset_tag(iter[who])[2])
                         EXCEPT !.writes = @ + 1]
    /\ UNCHANGED <<node, items>>

ClonedInvalidateSubtree ==
    /\ iter.kind = "cloned"
    /\ iter.writes < MaxClonedEdits
    /\ \E who \in Cursors :
          /\ ret' = [op |-> "invalidate_subtree", who |-> who, ok |-> TRUE]
          /\ iter' = [Shared(who, TaggedZipper_invalidate_subtree(iter[who]))
                         EXCEPT !.writes = @ + 1]
    /\ UNCHANGED <<node, items>>

ClonedReplaceFocus ==
    /\ iter.kind = "cloned"
    /\ iter.writes < MaxClonedEdits
    /\ \E who \in Cursors, v \in Pool("Stmt") :
          /\ ret' = [op |-> "replace_focus", who |-> who, ok |-> TRUE]
          /\ iter' = [Shared(who, TaggedZipper_replace_focus(iter[who], v)[2])
                         EXCEPT !.writes = @ + 1]
    /\ UNCHANGED <<node, items>>

\* let b = a.clone(), again.
ClonedClone ==
    /\ iter.kind = "cloned"
    /\ ret' = [op |-> "clone", who |-> "a", ok |-> TRUE]
    /\ iter' = [iter EXCEPT !.b = TaggedZipper_clone(iter.a)]
    /\ UNCHANGED <<node, items>>

\* rebuild_root consumes the cursor it is called on.
ClonedRebuildRoot ==
    /\ iter.kind = "cloned"
    /\ \E who \in Cursors :
          /\ ret' = [op |-> "rebuild_root", who |-> who, ok |-> TRUE,
                     out |-> PubZipper_rebuild_root("Stmt", iter[who].zipper)]
          /\ iter' = [kind |-> "consumed", was |-> "cloned"]
    /\ UNCHANGED <<node, items>>

NextCloned ==
    \/ ClonedGoUp
    \/ ClonedGoDown
    \/ ClonedGoLeft
    \/ ClonedGoRight
    \/ ClonedTagMut
    \/ ClonedReplaceTag
    \/ ClonedResetTag
    \/ ClonedInvalidateSubtree
    \/ ClonedReplaceFocus
    \/ ClonedClone
    \/ ClonedRebuildRoot

SpecCloned == InitCloned /\ [][NextCloned]_vars

\* The tags read going down from the focus, first child by first child.
RECURSIVE DescendantTags(_)
DescendantTags(tz) ==
    Eval(TaggedZipper_go_down("Stmt", tz), LAMBDA r :
        IF ~r[1] THEN <<>>
        ELSE <<TaggedZipper_tag(r[2])>> \o DescendantTags(r[2]))

\* The tags a cursor reads at its focus, above it and below it.
TagsRead(tz) ==
    <<AncestorTags(tz), TaggedZipper_tag(tz), DescendantTags(tz)>>

\* An operation through one cursor leaves the focus and the rebuild_root
\* result of the other as they are.
C30_ZipperStep ==
    (iter.kind = "cloned" /\ iter'.kind = "cloned" /\ ret'.op # "clone") =>
        LET o == Other(ret'.who) IN
        /\ iter'[o].zipper.focus = iter[o].zipper.focus
        /\ PubZipper_rebuild_root("Stmt", iter'[o].zipper)
               = PubZipper_rebuild_root("Stmt", iter[o].zipper)

C30_TagStep ==
    (iter.kind = "cloned" /\ iter'.kind = "cloned" /\ ret'.op # "clone") =>
        LET o == Other(ret'.who) IN TagsRead(iter'[o]) = TagsRead(iter[o])

\* C30: a cursor made by clone() is independent of the original: a move,
\* a replace_focus or a tag write (tag_mut, replace_tag, reset_tag,
\* invalidate_subtree) through one of the two changes neither the focus,
\* nor the rebuild_root result, nor the tag read at any position through
\* the other.
C30_CloneIsIndependent == [][C30_ZipperStep /\ C30_TagStep]_vars

\* The same for the Zipper inside: focus and rebuild_root result.
C30_CloneOfZipperIsIndependent == [][C30_ZipperStep]_vars

====
